---- MODULE Spec2Model ----
(***************************************************************************)
(* A model of simplemodels: Field descriptors (fields.py), the schema      *)
(* collecting metaclass DocumentMeta, Document / ImmutableDocument and     *)
(* their dict-with-attributes base AttributeDict (models.py).              *)
(*                                                                         *)
(* Python values are tagged records [t, v].  Mutable objects (documents,   *)
(* lists) live in `heap` and are referred to by [t |-> "ref"] values, so   *)
(* that aliasing and in-place mutation are visible.  Dictionary keys and   *)
(* attribute names are strings spelled as sequences of words               *)
(* ('User_name' is <<"User", "_", "name">>), which is what startswith and  *)
(* replace in _unprotect_fields need.  The constructor's calling           *)
(* convention (keyword arguments in models.py, one positional mapping in   *)
(* fields.py) is abstracted: a constructor takes one mapping.              *)
(***************************************************************************)
EXTENDS Integers, Sequences, FiniteSets, TLC

VARIABLES
    classes,    \* class name -> class object built by DocumentMeta.__new__
    heap,       \* location -> object (document, list); a location is a path
    last        \* the last statement the program executed and its outcome

vars == <<classes, heap, last>>

(***************************************************************************)
(* Bounds                                                                  *)
(***************************************************************************)
\* longest list an in-place append may produce
MaxLen == 2


(***************************************************************************)
(* Python values                                                           *)
(***************************************************************************)
None == [t |-> "None"]
StrV(s) == [t |-> "str", v |-> s]
IntV(n) == [t |-> "int", v |-> n]
DictV(m) == [t |-> "dict", v |-> m]
RefV(loc) == [t |-> "ref", v |-> loc]

\* a dict literal
EmptyMap == [k \in {} |-> None]
Map1(k, v) == [x \in {k} |-> v]
Merge(m1, m2) ==
    [k \in DOMAIN m1 \cup DOMAIN m2 |-> IF k \in DOMAIN m2 THEN m2[k] ELSE m1[k]]

\* a key or attribute name of one word
K(w) == <<w>>

\* heap objects
ListObj(items) == [t |-> "list", items |-> items]
DocObj(c, d, attrs) == [t |-> "doc", cls |-> c, d |-> d, attrs |-> attrs]

\* bool(value): Python truthiness of the values of the model
Truthy(value) ==
    CASE value.t = "None" -> FALSE
      [] value.t = "str" -> value.v # ""
      [] value.t = "int" -> value.v # 0
      [] value.t = "dict" -> DOMAIN value.v # {}
      [] value.t = "list" -> value.v # <<>>
      [] OTHER -> TRUE

\* outcome of a call: the value returned and the objects it created, or the
\* exceptions it can raise (errs is empty when it returns)
OK == "ok"
Ret(value, objs) == [errs |-> {}, val |-> value, objs |-> objs]
Raise(e) == [errs |-> {e}, val |-> None, objs |-> EmptyMap]

\* int(value) of fields.py:228 and str(value) of fields.py:246 on the
\* strings and integers of the model
Numerals == {<<"0", 0>>, <<"1", 1>>, <<"2", 2>>}
int(value) ==
    CASE value.t = "int" -> Ret(value, EmptyMap)
      [] value.t = "str" ->
            IF \E p \in Numerals : p[1] = value.v
            THEN Ret(IntV((CHOOSE p \in Numerals : p[1] = value.v)[2]), EmptyMap)
            ELSE Raise("ValueError")
      [] OTHER -> Raise("TypeError")
\* every other value is rendered by its repr
str(value) ==
    CASE value.t = "str" -> Ret(value, EmptyMap)
      [] value.t = "int" ->
            Ret(StrV((CHOOSE p \in Numerals : p[2] = value.v)[1]), EmptyMap)
      [] OTHER -> Ret(StrV("repr"), EmptyMap)

\* a datetime: seconds since 2014-01-01T00:00:00, and microseconds
DateV(sec, micro) == [t |-> "datetime", v |-> <<sec, micro>>]
\* the strings in DATE_FORMAT ('%Y-%m-%dT%H:%M:%SZ') of the model, the
\* n-th for second n - 1
DateStrings == <<"2014-01-01T00:00:00Z", "2014-01-01T00:00:01Z", "2014-01-01T00:00:02Z">>
\* the string is read as one second more than it says
strptime_next_second(value) ==
    IF \E n \in 1..(Len(DateStrings) - 1) : DateStrings[n] = value.v
    THEN Ret(DateV(CHOOSE n \in 1..Len(DateStrings) : DateStrings[n] = value.v, 0),
             EmptyMap)
    ELSE Raise("ValueError")
\* datetime.strptime(val, self._date_fmt)
strptime(value) ==
    IF \E n \in 1..Len(DateStrings) : DateStrings[n] = value.v
    THEN Ret(DateV((CHOOSE n \in 1..Len(DateStrings) : DateStrings[n] = value.v) - 1, 0),
             EmptyMap)
    ELSE Raise("ValueError")
\* datetime.fromtimestamp of an int (the epoch of the model is its second
\* 0, local time is UTC)
fromtimestamp(value) == Ret(DateV(value.v, 0), EmptyMap)
\* value.strftime(self._date_fmt): the format has no microseconds
strftime(value) == StrV(DateStrings[value.v[1] + 1])

\* hashlib.sha256(x).hexdigest() on the strings of the model: another
\* string, never its argument
Digests == <<"a", "b", "c", "d">>
sha256(value) ==
    IF value.t = "str" /\ \E n \in 1..(Len(Digests) - 1) : Digests[n] = value.v
    THEN Ret(StrV(Digests[(CHOOSE n \in 1..Len(Digests) : Digests[n] = value.v) + 1]),
             EmptyMap)
    ELSE Raise("AttributeError")

(***************************************************************************)
(* fields.py: SimpleField and its variants                                 *)
(***************************************************************************)
\* the unset _name / _holder_name / _verbose_name (None)
NoName == <<>>

\* SimpleField._set_default_value: a mutable default (a list object) is
\* wrapped in a lambda that deep-copies it; any other default is kept
CopyingDefault(value) == [t |-> "lambda", v |-> value.v]
set_default_value_shared(value) == value
set_default_value(value) ==
    IF value.t = "ref" THEN CopyingDefault(value) ELSE value

\* SimpleField.__init__ (and DocumentField.__init__, which adds _model):
\* the Field object before DocumentMeta stamps its names
NewField(cls, model, default, required, choices, name, immutable) ==
    [ cls |-> cls,
      _model |-> model,
      _name |-> NoName,
      _holder_name |-> NoName,
      _verbose_name |-> name,
      required |-> required,
      choices |-> choices,
      validators |-> <<"_validate_required", "_validate_choices">>,
      _default |-> set_default_value(default),
      _immutable |-> immutable ]

\* SimpleField.name: the verbose name when one was given
FieldName(fld) ==
    IF fld._verbose_name # NoName THEN fld._verbose_name ELSE fld._name

\* SimpleField.default: a callable _default is called, which copies the
\* captured object to the fresh location `loc`
FieldDefault(fld, h, loc) ==
    IF fld._default.t = "lambda"
    THEN Ret(RefV(loc), Map1(loc, h[fld._default.v]))
    ELSE Ret(fld._default, EmptyMap)

\* the empty string passes
validate_required_none_only(fld, value) ==
    IF fld.required /\ value = None THEN "FieldRequiredError" ELSE OK
\* SimpleField._validate_required
validate_required(fld, value) ==
    IF fld.required /\ (value = None \/ value = StrV(""))
    THEN "FieldRequiredError" ELSE OK

\* no value is compared with the choices
validate_choices_off(fld, value) == OK
\* SimpleField._validate_choices
validate_choices(fld, value) ==
    IF fld.choices # {} /\ value \notin fld.choices
    THEN "ValidationError" ELSE OK

RunValidator(fld, v, value) ==
    CASE v = "_validate_required" -> validate_required(fld, value)
      [] v = "_validate_choices" -> validate_choices(fld, value)
      [] OTHER -> OK

\* SimpleField.validate: the chain in order, the first failure is raised
RECURSIVE RunChain(_, _, _)
OrElse(e, rest) == IF e # OK THEN e ELSE rest
RunChain(fld, chain, value) ==
    IF chain = <<>> THEN OK
    ELSE OrElse(RunValidator(fld, Head(chain), value),
                RunChain(fld, Tail(chain), value))
validate(fld, value) == RunChain(fld, fld.validators, value)

(***************************************************************************)
(* models.py: DocumentMeta, the schema collection                          *)
(***************************************************************************)
Options == {"ALLOW_EXTRA_FIELDS", "OMIT_MISSED_FIELDS"}

\* dict.update over the parents, in order: _fields.update(parent_fields)
\* and _meta.update(parent_meta); a parent that is no Document class
\* (AttributeDict) has neither
RECURSIVE ParentsUpdate(_, _, _, _)
ParentsUpdate(cs, parents, attr, acc) ==
    IF parents = <<>> THEN acc
    ELSE LET p == Head(parents)
             got == IF p \in DOMAIN cs THEN cs[p][attr] ELSE EmptyMap
         IN  ParentsUpdate(cs, Tail(parents), attr, Merge(acc, got))

\* obj._name = field_name; obj._holder_name = name
Stamp(fld, field_name, name) ==
    [fld EXCEPT !._name = field_name, !._holder_name = name]

\* the fields of the class body, under their effective names:
\* _fields[obj.name] = obj
DeclaredFields(name, dct) ==
    LET stamped == [a \in DOMAIN dct |-> Stamp(dct[a], a, K(name))]
    IN  [n \in {FieldName(stamped[a]) : a \in DOMAIN dct} |->
            stamped[CHOOSE a \in DOMAIN dct : FieldName(stamped[a]) = n]]

\* the inherited field wins over the redeclared one
CollectFields_keep_inherited(cs, name, parents, dct) ==
    Merge(DeclaredFields(name, dct), ParentsUpdate(cs, parents, "_fields", EmptyMap))
\* the loops of DocumentMeta.__new__ that fill _fields
CollectFields(cs, name, parents, dct) ==
    Merge(ParentsUpdate(cs, parents, "_fields", EmptyMap), DeclaredFields(name, dct))

\* the functions and methods named validate_<field> of a class body, by
\* field name (a body without any has no `hooks`)
BodyHooks(body) == IF "hooks" \in DOMAIN body THEN body.hooks ELSE EmptyMap

\* DocumentMeta.__new__: the class object of `class name(parents): body`,
\* body = [dct: attribute -> Field, Meta: option -> bool]
DocumentMeta__new__(cs, name, parents, body) ==
    [ name |-> name,
      _parents |-> parents,
      dct |-> [a \in DOMAIN body.dct |-> Stamp(body.dct[a], a, K(name))],
      hooks |-> BodyHooks(body),
      _fields |-> CollectFields(cs, name, parents, body.dct),
      _meta |-> Merge(ParentsUpdate(cs, parents, "_meta", EmptyMap), body.Meta) ]

\* `class name(parents): body` executed in the class table cs
\* (registry[name] = cls)
Define(cs, name, parents, body) ==
    Merge(cs, Map1(name, DocumentMeta__new__(cs, name, parents, body)))

\* the method resolution order of the class hierarchies of the model
\* (parents that share only their root classes): the class, then its
\* parents' orders left to right, a shared base after its last heir
RECURSIVE KeepLast(_)
KeepLast(seq) ==
    IF seq = <<>> THEN <<>>
    ELSE IF \E n \in 2..Len(seq) : seq[n] = Head(seq)
         THEN KeepLast(Tail(seq))
         ELSE <<Head(seq)>> \o KeepLast(Tail(seq))
RECURSIVE Linear(_, _)
RECURSIVE LinearAll(_, _)
LinearAll(cs, parents) ==
    IF parents = <<>> THEN <<>>
    ELSE Linear(cs, Head(parents)) \o LinearAll(cs, Tail(parents))
Linear(cs, c) ==
    IF c \notin DOMAIN cs THEN <<c>>
    ELSE <<c>> \o LinearAll(cs, cs[c]._parents)
Mro(cs, c) == KeepLast(Linear(cs, c))

\* type(instance).<a>: the Field the first class of the order that
\* declares a holds under it (a data descriptor), if any
NoField == [cls |-> "none"]
RECURSIVE Lookup(_, _, _)
Lookup(cs, mro, a) ==
    IF mro = <<>> THEN NoField
    ELSE IF Head(mro) \in DOMAIN cs /\ a \in DOMAIN cs[Head(mro)].dct
         THEN cs[Head(mro)].dct[a]
         ELSE Lookup(cs, Tail(mro), a)
Descriptor(cs, c, a) == Lookup(cs, Mro(cs, c), a)

\* ImmutableDocument.__setattr__ / __setitem__ are the ones the class uses
InOrder(mro, c) == \E n \in 1..Len(mro) : mro[n] = c
IsImmutableDocument(cs, c) == InOrder(Mro(cs, c), "ImmutableDocument")

\* the classes models.py itself defines
NoBody == [dct |-> EmptyMap, Meta |-> EmptyMap]
DocumentBody ==
    [dct |-> EmptyMap,
     Meta |-> [o \in Options |-> FALSE]]
Builtins ==
    Define(Define(EmptyMap, "Document", <<"AttributeDict">>, DocumentBody),
           "ImmutableDocument", <<"Document">>, NoBody)

(***************************************************************************)
(* Field coercion and the construction pipeline of Document                *)
(***************************************************************************)
\* Document(kw) for class c, the instance placed at location loc: the
\* set of exceptions it can raise (which one is raised when several fields
\* fail depends on the iteration order of the dict _fields) and the
\* objects it creates
RECURSIVE NewDocument(_, _, _, _, _)

\* `value or {}`
OrEmptyDict(value) == IF Truthy(value) THEN value ELSE DictV(EmptyMap)

\* the mapping a constructor receives: a dict, or a document (a dict too)
MappingOf(raw, h) ==
    CASE raw.t = "dict" -> raw.v
      [] raw.t = "ref" -> h[raw.v].d
      [] OTHER -> EmptyMap

\* the instance the constructor returned, as a value
Instance(made, loc) ==
    IF made.errs # {}
    THEN [errs |-> made.errs, val |-> None, objs |-> EmptyMap]
    ELSE [errs |-> {}, val |-> RefV(loc), objs |-> made.objs]

(***************************************************************************)
(* fields.py: ListType, the sequence a ListField stores                    *)
(***************************************************************************)
\* a Python list given as a value, and a document held as a list element
ListV(items) == [t |-> "list", v |-> items]
DocV(doc) == [t |-> "docv", v |-> doc]

\* what `of` can be: a callable (int, str), a Document class, the name of
\* one (a str), and None once a lookup of the name has failed
OfCallable(f) == [k |-> "callable", v |-> f]
OfClass(c) == [k |-> "class", v |-> c]
OfName(c) == [k |-> "name", v |-> c]
OfNone == [k |-> "none", v |-> ""]

\* the ListType object: `raw` while it has _raw_value (items is
\* _raw_value, _list is None), else items is _list
ListType(of, raw, items) ==
    [t |-> "listtype", _of |-> of, raw |-> raw, items |-> items]

\* where the instance made for an element is built
ItemLoc == <<"item">>
DocItem(made) ==
    IF made.errs # {} THEN [errs |-> made.errs, val |-> None, objs |-> EmptyMap]
    ELSE Ret(DocV(made.objs[ItemLoc]), EmptyMap)

\* self._of(data): int(data), str(data), Model(data); calling a str or
\* None is a TypeError
CoerceItem(cs, of, data, h) ==
    CASE of = OfCallable("int") -> int(data)
      [] of = OfCallable("str") -> str(data)
      [] of = OfCallable("sha256") -> sha256(data)
      [] of.k = "class" ->
            IF data.t # "dict" THEN Raise("TypeError")
            ELSE DocItem(NewDocument(cs, of.v, data.v, h, ItemLoc))
      [] OTHER -> Raise("TypeError")

\* [self._of(data) for data in self._raw_value]
Coerced(each) ==
    [errs |-> UNION {each[i].errs : i \in DOMAIN each},
     vals |-> [i \in DOMAIN each |-> each[i].val]]
CoerceAll(cs, of, items, h) ==
    Coerced([i \in DOMAIN items |-> CoerceItem(cs, of, items[i], h)])

\* self._of = registry.get(self._of) when it is a str
Resolve(cs, of) ==
    IF of.k # "name" THEN of
    ELSE IF of.v \in DOMAIN cs THEN OfClass(of.v) ELSE OfNone

\* outcome of a ListType method: the exceptions it can raise, the object
\* as the call leaves it, the value returned
Left(errs, w, val) == [errs |-> errs, w |-> w, val |-> val]

\* ListType.list (the property): with _raw_value, resolve the name (the
\* assignment to _of comes before the raise), coerce every element,
\* delete _raw_value
Materialized(w, all) ==
    IF all.errs # {} THEN Left(all.errs, w, None)
    ELSE Left({}, [w EXCEPT !.raw = FALSE, !.items = all.vals], None)
Resolved(cs, w, of, h) ==
    IF w._of.k = "name" /\ of = OfNone
    THEN Left({"ModelNotFoundError"}, [w EXCEPT !._of = of], None)
    ELSE Materialized([w EXCEPT !._of = of], CoerceAll(cs, of, w.items, h))
list_property(cs, w, h) ==
    IF ~w.raw THEN Left({}, w, None) ELSE Resolved(cs, w, Resolve(cs, w._of), h)

\* ListType.__init__(value, of)
ListType__init__(cs, value, of, h) ==
    IF value.t # "list" THEN Left({"ValueError"}, ListType(of, TRUE, <<>>), None)
    ELSE IF of.k = "name" THEN Left({}, ListType(of, TRUE, value.v), None)
    ELSE list_property(cs, ListType(of, TRUE, value.v), h)

\* every non-sequence is refused, the falsy ones too
OrEmptyList_strict(value) == value
\* value or []
OrEmptyList(value) == IF Truthy(value) THEN value ELSE ListV(<<>>)

\* _validate_required on a ListType: `value == ''` is ListType.__eq__,
\* which reads self.list
Compared(cs, required, made, h) ==
    IF ~required \/ made.errs # {} THEN made ELSE list_property(cs, made.w, h)
Wrapped(made, loc) ==
    IF made.errs # {} THEN [errs |-> made.errs, val |-> None, objs |-> EmptyMap]
    ELSE Ret(RefV(loc), Map1(loc, made.w))
\* ListField._typecast, and what validate() does to the ListType made
typecast_list(cs, fld, value, h, loc) ==
    Wrapped(Compared(cs, fld.required,
                     ListType__init__(cs, OrEmptyList(value), fld._of, h), h),
            loc)

\* DocumentField._typecast: the model looked up in the registry when it
\* is given by name, then model(value or {})
typecast_document(cs, fld, raw, h, loc) ==
    IF fld._model \notin DOMAIN cs THEN Raise("ModelNotFoundError")
    ELSE IF raw.t \notin {"dict", "ref"} THEN Raise("TypeError")
    ELSE Instance(NewDocument(cs, fld._model, MappingOf(raw, h), h, loc), loc)

\* DateTimeField._typecast
typecast_datetime(value) ==
    CASE value.t = "str" -> strptime(value)
      [] value.t = "int" -> fromtimestamp(value)
      [] value.t \in {"datetime", "None"} -> Ret(value, EmptyMap)
      [] OTHER -> Raise("ValueError")

\* None is taken as the empty mapping
typecast_dict_or_empty(value) ==
    CASE value.t \in {"dict"} -> Ret(value, EmptyMap)
      [] value.t = "None" -> Ret(DictV(EmptyMap), EmptyMap)
      [] value = StrV("") \/ value = ListV(<<>>) -> Ret(DictV(EmptyMap), EmptyMap)
      [] value.t = "str" -> Raise("ValueError")
      [] OTHER -> Raise("TypeError")
\* DictField._typecast: dict(value) unless value is None; dict('') and
\* dict([]) are {}, dict('a') is a ValueError, dict(1) a TypeError
typecast_dict(value) ==
    CASE value.t \in {"dict", "None"} -> Ret(value, EmptyMap)
      [] value = StrV("") \/ value = ListV(<<>>) -> Ret(DictV(EmptyMap), EmptyMap)
      [] value.t = "str" -> Raise("ValueError")
      [] OTHER -> Raise("TypeError")

\* <Variant>._typecast; an object the coercion creates is placed at loc
typecast(cs, fld, value, h, loc) ==
    CASE fld.cls = "IntegerField" ->
            IF value # None THEN int(value) ELSE Ret(value, EmptyMap)
      [] fld.cls = "CharField" ->
            IF value # None THEN str(value) ELSE Ret(value, EmptyMap)
      [] fld.cls = "DocumentField" ->
            typecast_document(cs, fld, OrEmptyDict(value), h, loc)
      [] fld.cls = "ListField" -> typecast_list(cs, fld, value, h, loc)
      [] fld.cls = "DateTimeField" -> typecast_datetime(value)
      [] fld.cls = "DictField" -> typecast_dict(value)
      [] OTHER -> Ret(value, EmptyMap)

\* SimpleField.__set_value__ up to the store: coerce, then validate; the
\* caller stores the value returned in instance.__dict__[self.name]
Validated(e, cast) == IF e # OK THEN Raise(e) ELSE cast
Checked(fld, cast) ==
    IF cast.errs # {} THEN cast ELSE Validated(validate(fld, cast.val), cast)
\* the validators are given the value before it is coerced
set_value_validating_raw(cs, fld, value, h, loc) ==
    Validated(validate(fld, value), typecast(cs, fld, value, h, loc))
set_value(cs, fld, value, h, loc) == Checked(fld, typecast(cs, fld, value, h, loc))

\* str.startswith and str.replace(prefix, '') on names spelled as words
StartsWith(k, prefix) ==
    Len(k) >= Len(prefix) /\ SubSeq(k, 1, Len(prefix)) = prefix
RECURSIVE Replace(_, _)
Replace(k, prefix) ==
    IF Len(k) < Len(prefix) \/ prefix = <<>> THEN k
    ELSE IF StartsWith(k, prefix)
         THEN Replace(SubSeq(k, Len(prefix) + 1, Len(k)), prefix)
         ELSE <<Head(k)>> \o Replace(Tail(k), prefix)

\* Document._protect_fields
protect_fields(c, kwargs) ==
    [p \in {<<c, "_">> \o k : k \in DOMAIN kwargs} |->
        kwargs[CHOOSE k \in DOMAIN kwargs : <<c, "_">> \o k = p]]

\* Document._unprotect_fields: a key with the prefix '<class name>_' loses
\* every occurrence of it and overrides; any other key is kept unless a
\* protected one already gave its name a value
Decoded(k, protect_prefix) ==
    IF StartsWith(k, protect_prefix) THEN Replace(k, protect_prefix) ELSE k
Protected(kwargs, protect_prefix, n) ==
    {k \in DOMAIN kwargs :
        StartsWith(k, protect_prefix) /\ Replace(k, protect_prefix) = n}
Unprotected(kwargs, n, protected) ==
    IF protected # {} THEN kwargs[CHOOSE k \in protected : TRUE] ELSE kwargs[n]
unprotect_fields(c, kwargs) ==
    [n \in {Decoded(k, <<c, "_">>) : k \in DOMAIN kwargs} |->
        Unprotected(kwargs, n, Protected(kwargs, <<c, "_">>, n))]

\* every input key is kept, whatever the option says
clean_kwargs_keep_all(cs, c, kwargs) == kwargs
\* Document._clean_kwargs
clean_kwargs(cs, c, kwargs) ==
    IF cs[c]._meta["ALLOW_EXTRA_FIELDS"]
    THEN kwargs
    ELSE [k \in DOMAIN kwargs \cap DOMAIN cs[c]._fields |-> kwargs[k]]

\* one turn of the loop of Document._prepare_fields, for the field
\* field_name: whether a value is stored (in kwargs and, by
\* __set_value__, in instance.__dict__), which, and the objects created

\* field_val = kwargs.get(field_name), or the default when that is None
FieldVal(given, default_val) == IF given = None THEN default_val ELSE given

\* the outcome of `field_obj.validate(field_val); continue`
Omitted(e) ==
    [errs |-> IF e = OK THEN {} ELSE {e}, stored |-> FALSE, val |-> None,
     objs |-> EmptyMap]
\* the outcome of `val = field_obj.__set_value__(self, ...)`
Set(r, made) ==
    [errs |-> r.errs, stored |-> r.errs = {}, val |-> r.val,
     objs |-> Merge(made, r.objs)]

\* the option OMIT_MISSED_FIELDS is not looked at
Branch_ignore_omit(present, is_document, field_val, omit) ==
    IF ~present /\ is_document THEN "set_empty" ELSE "set"
\* the if / elif / else of the loop body
Branch(present, is_document, field_val, omit) ==
    IF present THEN "set"
    ELSE IF is_document THEN "set_empty"
    ELSE IF field_val = None /\ omit THEN "omit"
    ELSE "set"

PrepareWith(cs, field_obj, branch, field_val, made, h, loc) ==
    IF branch = "omit" THEN Omitted(validate(field_obj, field_val))
    ELSE Set(set_value(cs, field_obj,
                       IF branch = "set_empty" THEN DictV(EmptyMap) ELSE field_val,
                       h, loc),
             made)

PrepareDefaulted(cs, omit, field_obj, present, given, default_val, h, loc) ==
    PrepareWith(cs, field_obj,
                Branch(present, field_obj.cls = "DocumentField",
                       FieldVal(given, default_val.val), omit),
                FieldVal(given, default_val.val),
                IF given = None THEN default_val.objs ELSE EmptyMap,
                h, loc)

PrepareField(cs, c, field_name, kwargs, h, loc) ==
    PrepareDefaulted(cs, cs[c]._meta["OMIT_MISSED_FIELDS"],
                     cs[c]._fields[field_name],
                     field_name \in DOMAIN kwargs,
                     IF field_name \in DOMAIN kwargs THEN kwargs[field_name] ELSE None,
                     FieldDefault(cs[c]._fields[field_name], h, loc \o field_name),
                     h, loc \o field_name)

\* the prepared fields (kwargs with the stored values) become the dict;
\* the stored values are also in instance.__dict__
Stored(step) == {n \in DOMAIN step : step[n].stored}
StoredValues(step, stored) == [n \in stored |-> step[n].val]
Created(step, stored) ==
    [l \in UNION {DOMAIN step[n].objs : n \in stored} |->
        step[CHOOSE n \in stored : l \in DOMAIN step[n].objs].objs[l]]
Assembled(c, loc, kwargs, step, values) ==
    [errs |-> UNION {step[n].errs : n \in DOMAIN step},
     objs |-> Merge(Created(step, DOMAIN values),
                    Map1(loc, DocObj(c, Merge(kwargs, values), values)))]
Assemble(c, loc, kwargs, step) ==
    Assembled(c, loc, kwargs, step, StoredValues(step, Stored(step)))

\* Document._prepare_fields: the loop over self._fields
prepare_fields(cs, c, kwargs, h, loc) ==
    Assemble(c, loc, kwargs,
             [n \in DOMAIN cs[c]._fields |-> PrepareField(cs, c, n, kwargs, h, loc)])

(***************************************************************************)
(* Reading and writing an instance                                         *)
(***************************************************************************)
\* the exception a read raises, as the result of the read
Raised(e) == [t |-> "raise", v |-> e]

\* SimpleField.__get__: instance.__dict__.get(self.name)
field_get(fld, doc) ==
    IF FieldName(fld) \in DOMAIN doc.attrs THEN doc.attrs[FieldName(fld)] ELSE None

\* doc.<a>: SimpleField.__get__ when the class holds a Field under a,
\* else the instance __dict__, else AttributeDict.__getattr__
getattr(fld, doc, a) ==
    IF fld # NoField THEN field_get(fld, doc)
    ELSE IF a \in DOMAIN doc.attrs THEN doc.attrs[a]
    ELSE IF a \in DOMAIN doc.d THEN doc.d[a]
    ELSE Raised("AttributeError")
GetAttr(cs, h, loc, a) == getattr(Descriptor(cs, h[loc].cls, a), h[loc], a)

\* doc[k]: dict.__getitem__
GetItem(h, loc, k) ==
    IF k \in DOMAIN h[loc].d THEN h[loc].d[k] ELSE Raised("KeyError")

(***************************************************************************)
(* Export: <Field>.to_python and Document.as_dict                          *)
(***************************************************************************)
RECURSIVE as_dict(_, _, _)
\* ListField.to_python: [item.as_dict() for item in value] when `of` has
\* as_dict (a Document class), else the items
ItemsToPython(cs, of, items, h) ==
    IF of.k = "class"
    THEN ListV([n \in DOMAIN items |-> DictV(as_dict(cs, items[n].v, h))])
    ELSE ListV(items)
\* <Variant>.to_python
to_python(cs, fld, value, h) ==
    CASE fld.cls = "DateTimeField" ->
            IF value # None THEN strftime(value) ELSE None
      [] fld.cls = "DocumentField" -> DictV(as_dict(cs, h[value.v], h))
      [] fld.cls = "ListField" ->
            ItemsToPython(cs, fld._of, list_property(cs, h[value.v], h).w.items, h)
      [] OTHER -> value
\* Document.as_dict: the plain mapping of a document, every value of a
\* schema field through the field's to_python, every other value as it is
as_dict(cs, doc, h) ==
    [k \in DOMAIN doc.d |->
        IF k \in DOMAIN cs[doc.cls]._fields
        THEN to_python(cs, cs[doc.cls]._fields[k], doc.d[k], h)
        ELSE doc.d[k]]

\* getattr(self, 'validate_<field_name>'): the attribute of the first
\* class of the order that has one
NoHook == [kind |-> "none"]
RECURSIVE HookLookup(_, _, _)
HookLookup(cs, mro, field_name) ==
    IF mro = <<>> THEN NoHook
    ELSE IF Head(mro) \in DOMAIN cs /\ field_name \in DOMAIN cs[Head(mro)].hooks
         THEN cs[Head(mro)].hooks[field_name]
         ELSE HookLookup(cs, Tail(mro), field_name)

\* the body of a hook of the model: it reads document.<other> and raises
\* ModelValidationError on the pairs (value, document.<other>) it rejects
HookBody(hook, value, other) ==
    IF <<value, other>> \in hook.bad THEN "ModelValidationError" ELSE OK

\* one turn of the loop of _post_init_validation: a validate_<field>
\* that is no function is refused, self[field_name] is read, the hook is
\* called with the instance and that value
HookCall(cs, c, hook, field_name, doc) ==
    IF hook.kind # "function"
    THEN [err |-> "ModelValidationError", calls |-> {}]
    ELSE IF field_name \notin DOMAIN doc.d
    THEN [err |-> "KeyError", calls |-> {}]
    ELSE [err |-> HookBody(hook, doc.d[field_name],
                           getattr(Descriptor(cs, c, hook.other), doc, hook.other)),
          calls |-> {[field |-> field_name, value |-> doc.d[field_name],
                      document |-> doc]}]

\* Document._post_init_validation on the instance made: never reached
\* when a field failed; else the loop over self._fields (the hook that
\* raises first ends it, `calls` are the calls the loop can make)
post_init_validation(cs, c, kw, made, mro, loc) ==
    IF made.errs # {}
    THEN [errs |-> made.errs, objs |-> made.objs, calls |-> {}]
    ELSE [errs |-> {HookCall(cs, c, HookLookup(cs, mro, n), n,
                             made.objs[loc]).err :
                        n \in {f \in DOMAIN cs[c]._fields :
                                  HookLookup(cs, mro, f) # NoHook}} \ {OK},
          objs |-> made.objs,
          calls |-> UNION {HookCall(cs, c, HookLookup(cs, mro, n), n,
                                    made.objs[loc]).calls :
                        n \in {f \in DOMAIN cs[c]._fields :
                                  HookLookup(cs, mro, f) # NoHook}}]

\* Document.__init__: unprotect, clean, _prepare_fields, dict.__init__,
\* _post_init_validation
NewDocument(cs, c, kw, h, loc) ==
    post_init_validation(cs, c, kw,
        prepare_fields(cs, c, clean_kwargs(cs, c, unprotect_fields(c, kw)), h, loc),
        Mro(cs, c), loc)

\* the documents alive in the heap
Docs(h) == {loc \in DOMAIN h : h[loc].t = "doc"}

\* the objects at and below a location
Below(h, loc) == {l \in DOMAIN h : StartsWith(l, loc)}
Without(h, locs) == [l \in DOMAIN h \ locs |-> h[l]]

\* what `last` records of a statement
Stmt(op, loc, c, key, val, kw, err) ==
    [op |-> op, loc |-> loc, cls |-> c, key |-> key, val |-> val, kw |-> kw,
     err |-> err]

\* i = c(kw): on an exception the variable keeps what it was bound to
Constructed(i, c, kw, made) ==
    IF made.errs = {}
    THEN /\ heap' = Merge(Without(heap, Below(heap, <<i>>)), made.objs)
         /\ last' = Stmt("init", <<i>>, c, NoName, None, kw, OK)
                        @@ [calls |-> made.calls]
    ELSE /\ heap' = heap
         /\ \E e \in made.errs :
               last' = Stmt("init", <<i>>, c, NoName, None, kw, e)
                          @@ [calls |-> made.calls]
\* every key the schema does not know is added to the schema of the class
ExtraFields(c, kw) ==
    [k \in DOMAIN kw |-> Stamp(NewField("ExtraField", "", None, FALSE, {}, NoName, FALSE),
                               k, K(c))]
Construct_extending_schema(i, c, kw) ==
    /\ Constructed(i, c, kw, NewDocument(classes, c, kw, heap, <<i>>))
    /\ classes' = [classes EXCEPT ![c]._fields = Merge(ExtraFields(c, kw), @)]
Construct(i, c, kw) ==
    /\ Constructed(i, c, kw, NewDocument(classes, c, kw, heap, <<i>>))
    /\ UNCHANGED classes

\* the outcome of a write: the exceptions it can raise, the heap it leaves
Fails(errs, h) == [errs |-> errs, h |-> h]
Done(h) == [errs |-> {}, h |-> h]

\* the value is kept where every instance of the class reads it
StoreAttr_shared(h, loc, name, r) ==
    IF r.errs # {} THEN Fails(r.errs, h)
    ELSE Done(Merge([l \in DOMAIN h |->
                        IF h[l].t = "doc" /\ h[l].cls = h[loc].cls
                        THEN [h[l] EXCEPT !.attrs = Merge(@, Map1(name, r.val))]
                        ELSE h[l]],
                    r.objs))
\* instance.__dict__[name] = value, with the objects the value brought
StoreAttr(h, loc, name, r) ==
    IF r.errs # {} THEN Fails(r.errs, h)
    ELSE Done(Merge([h EXCEPT ![loc].attrs = Merge(@, Map1(name, r.val))], r.objs))

\* the check of _immutable is skipped
field_set_unguarded(cs, fld, h, loc, value) ==
    StoreAttr(h, loc, FieldName(fld),
              set_value(cs, fld, value, h, loc \o FieldName(fld)))
\* SimpleField.__set__ on the document at loc
field_set(cs, fld, h, loc, value) ==
    IF fld._immutable
    THEN Fails({"ImmutableFieldError"}, h)
    ELSE StoreAttr(h, loc, FieldName(fld),
                   set_value(cs, fld, value, h, loc \o FieldName(fld)))

\* object.__setattr__: the Field's __set__ when the class holds one under
\* a, else the instance __dict__
object_setattr(cs, fld, h, loc, a, value) ==
    IF fld # NoField THEN field_set(cs, fld, h, loc, value)
    ELSE Done([h EXCEPT ![loc].attrs = Merge(@, Map1(a, value))])

\* self[key] = super().__getattribute__(key)
Mirror(cs, r, loc, a) ==
    IF r.errs # {} THEN r
    ELSE Done([r.h EXCEPT ![loc].d = Merge(@, Map1(a, GetAttr(cs, r.h, loc, a)))])

\* AttributeDict.__setattr__(a, value)
attributedict_setattr(cs, h, loc, a, value) ==
    Mirror(cs, object_setattr(cs, Descriptor(cs, h[loc].cls, a), h, loc, a, value),
           loc, a)

\* the write is let through to AttributeDict.__setattr__
setattr_unlocked(cs, h, loc, a, value) == attributedict_setattr(cs, h, loc, a, value)
\* setattr(doc, a, value): ImmutableDocument.__setattr__ raises at once
setattr(cs, h, loc, a, value) ==
    IF IsImmutableDocument(cs, h[loc].cls)
    THEN Fails({"ImmutableDocumentError"}, h)
    ELSE attributedict_setattr(cs, h, loc, a, value)

\* doc[k] = value: ImmutableDocument.__setitem__ goes through setattr, a
\* Document has dict.__setitem__
setitem(cs, h, loc, k, value) ==
    IF IsImmutableDocument(cs, h[loc].cls)
    THEN setattr(cs, h, loc, k, value)
    ELSE Done([h EXCEPT ![loc].d = Merge(@, Map1(k, value))])

Wrote(op, loc, key, value, r) ==
    /\ heap' = r.h
    /\ \E e \in (IF r.errs = {} THEN {OK} ELSE r.errs) :
          last' = Stmt(op, loc, heap[loc].cls, key, value, EmptyMap, e)

\* the statement doc.a = value
SetAttr(loc, a, value) ==
    /\ loc \in Docs(heap)
    /\ Wrote("setattr", loc, a, value, setattr(classes, heap, loc, a, value))
    /\ UNCHANGED classes

\* the statement doc[k] = value
SetItem(loc, k, value) ==
    /\ loc \in Docs(heap)
    /\ Wrote("setitem", loc, k, value, setitem(classes, heap, loc, k, value))
    /\ UNCHANGED classes

\* the statement doc.a.append(value) on a list-valued attribute
Appended(loc, a, value, target) ==
    /\ target.t = "ref"
    /\ heap[target.v].t = "list"
    /\ Len(heap[target.v].items) < MaxLen
    /\ heap' = [heap EXCEPT ![target.v].items = Append(@, value)]
    /\ last' = Stmt("append", loc, heap[loc].cls, a, value, EmptyMap, OK)
ListAppend(loc, a, value) ==
    /\ loc \in Docs(heap)
    /\ Appended(loc, a, value, GetAttr(classes, heap, loc, a))
    /\ UNCHANGED classes

(***************************************************************************)
(* The methods of ListType and the statements that call them               *)
(***************************************************************************)
\* list.insert(index, value) and del list[index], index counted from 0
InsertAt(items, index, value) ==
    SubSeq(items, 1, index) \o <<value>> \o SubSeq(items, index + 1, Len(items))
RemoveAt(items, index) ==
    SubSeq(items, 1, index) \o SubSeq(items, index + 2, Len(items))

\* list(w), iteration, w[:]: the elements of self.list
Listed(r) == IF r.errs # {} THEN r ELSE Left({}, r.w, ListV(r.w.items))
ListType_read(cs, w, h) == Listed(list_property(cs, w, h))

\* ListType.__len__
Counted(r) == IF r.errs # {} THEN r ELSE Left({}, r.w, IntV(Len(r.w.items)))
ListType_len(cs, w, h) == Counted(list_property(cs, w, h))

PutAt(r, index, value) ==
    IF r.errs # {} THEN r
    ELSE Left({}, [r.w EXCEPT !.items = InsertAt(@, index, value)], None)
Inserting(cs, w, index, item, h) ==
    IF item.errs # {} THEN Left(item.errs, w, None)
    ELSE PutAt(list_property(cs, w, h), index, item.val)
\* the value is put into the list as it was given
ListType_insert_as_given(cs, w, index, value, h) ==
    PutAt(list_property(cs, w, h), index, value)
\* ListType.insert: value = self._of(value), then self.list.insert
ListType_insert(cs, w, index, value, h) ==
    Inserting(cs, w, index, CoerceItem(cs, w._of, value, h), h)

\* MutableSequence.append: self.insert(len(self), value)
AppendAt(cs, r, value, h) ==
    IF r.errs # {} THEN r ELSE ListType_insert(cs, r.w, r.val.v, value, h)
ListType_append(cs, w, value, h) == AppendAt(cs, ListType_len(cs, w, h), value, h)

\* MutableSequence.extend: for v in values: self.append(v)
RECURSIVE Extending(_, _, _, _)
Extending(cs, r, values, h) ==
    IF r.errs # {} \/ values = <<>> THEN r
    ELSE Extending(cs, ListType_append(cs, r.w, Head(values), h), Tail(values), h)
ListType_extend(cs, w, values, h) == Extending(cs, Left({}, w, None), values, h)

\* ListType.__setitem__: self.list[index] = value
Assigning(r, index, value) ==
    IF r.errs # {} THEN r
    ELSE IF index >= Len(r.w.items) THEN Left({"IndexError"}, r.w, None)
    ELSE Left({}, [r.w EXCEPT !.items[index + 1] = value], None)
ListType_setitem(cs, w, index, value, h) ==
    Assigning(list_property(cs, w, h), index, value)

\* ListType.__delitem__: del self.list[index]
Deleting(r, index) ==
    IF r.errs # {} THEN r
    ELSE IF index >= Len(r.w.items) THEN Left({"IndexError"}, r.w, None)
    ELSE Left({}, [r.w EXCEPT !.items = RemoveAt(@, index)], None)
ListType_delitem(cs, w, index, h) == Deleting(list_property(cs, w, h), index)

\* sorted(): the order of int among int and of str among str; any other
\* pair of elements cannot be compared (TypeError)
Strings == <<"", "0", "1", "2", "a", "repr">>
Rank(value) ==
    IF value.t = "int" THEN value.v
    ELSE CHOOSE i \in 1..Len(Strings) : Strings[i] = value.v
Comparable(items) ==
    \/ Len(items) <= 1
    \/ \A i \in DOMAIN items : items[i].t = "int"
    \/ \A i \in DOMAIN items : items[i].t = "str"
RECURSIVE sorted(_)
InsertSorted(value, rest) ==
    IF \E i \in DOMAIN rest : Rank(rest[i]) > Rank(value)
    THEN InsertAt(rest, (CHOOSE i \in DOMAIN rest :
                            /\ Rank(rest[i]) > Rank(value)
                            /\ \A j \in 1..(i - 1) : Rank(rest[j]) <= Rank(value)) - 1,
                  value)
    ELSE Append(rest, value)
sorted(items) ==
    IF items = <<>> THEN <<>>
    ELSE InsertSorted(items[Len(items)], sorted(SubSeq(items, 1, Len(items) - 1)))

\* ListType.sort: self._list = sorted(self.list)
Sorting(r) ==
    IF r.errs # {} THEN r
    ELSE IF ~Comparable(r.w.items) THEN Left({"TypeError"}, r.w, None)
    ELSE Left({}, [r.w EXCEPT !.items = sorted(@)], None)
ListType_sort(cs, w, h) == Sorting(list_property(cs, w, h))

\* the ListType objects alive
Lists(h) == {loc \in DOMAIN h : h[loc].t = "listtype"}

\* a statement that calls a method of the ListType at loc: the object is
\* left as the call left it, also when the call raised
Called(op, loc, index, value, r) ==
    /\ loc \in Lists(heap)
    /\ heap' = [heap EXCEPT ![loc] = r.w]
    /\ \E e \in (IF r.errs = {} THEN {OK} ELSE r.errs) :
          last' = Stmt(op, loc, "", NoName, value, EmptyMap, e)
                     @@ [index |-> index, ret |-> r.val]
    /\ UNCHANGED classes

ListRead(loc) ==
    Called("read", loc, 0, None, ListType_read(classes, heap[loc], heap))
ListLen(loc) ==
    Called("len", loc, 0, None, ListType_len(classes, heap[loc], heap))
ListTypeAppend(loc, value) ==
    Called("append", loc, 0, value, ListType_append(classes, heap[loc], value, heap))
ListInsert(loc, index, value) ==
    Called("insert", loc, index, value,
           ListType_insert(classes, heap[loc], index, value, heap))
ListExtend(loc, values) ==
    Called("extend", loc, 0, ListV(values),
           ListType_extend(classes, heap[loc], values, heap))
ListSetItem(loc, index, value) ==
    Called("setitem", loc, index, value,
           ListType_setitem(classes, heap[loc], index, value, heap))
ListDelItem(loc, index) ==
    Called("delitem", loc, index, None,
           ListType_delitem(classes, heap[loc], index, heap))
ListSort(loc) ==
    Called("sort", loc, 0, None, ListType_sort(classes, heap[loc], heap))

(***************************************************************************)
(* The program: model classes as the tests declare them, two instances     *)
(***************************************************************************)
\* the list ['news'] that `tags = SimpleField(default=['news'])` captures
NewsLoc == <<"default", "news">>
News == ListObj(<<StrV("news")>>)

Plain(cls) == NewField(cls, "", None, FALSE, {}, NoName, FALSE)
Required(cls) == NewField(cls, "", None, TRUE, {}, NoName, FALSE)
WithDefault(cls, default) == NewField(cls, "", default, FALSE, {}, NoName, FALSE)
Immutable(cls) == NewField(cls, "", None, FALSE, {}, NoName, TRUE)
Nested(model, required) ==
    NewField("DocumentField", model, None, required, {}, NoName, FALSE)

\* class MetaInfo(ImmutableDocument): login = CharField(default='guest')
MetaInfoBody ==
    [dct |-> Map1(K("login"), WithDefault("CharField", StrV("guest"))),
     Meta |-> EmptyMap]

\* the bodies of the model class under test
ModelBodies ==
    { Map1(K("name"), Plain("SimpleField")),
      Map1(K("name"), Required("SimpleField")),
      Map1(K("title"), Required("CharField")),
      Map1(K("zip"), Plain("IntegerField")),
      Map1(K("zip"), Required("IntegerField")),
      Map1(K("id"), WithDefault("IntegerField", StrV("1"))),
      Map1(K("role"), WithDefault("CharField", StrV("admin"))),
      Map1(K("tags"), WithDefault("SimpleField", RefV(NewsLoc))),
      Map1(K("system_id"), Immutable("IntegerField")),
      Map1(K("meta"), Nested("MetaInfo", FALSE)),
      Map1(K("meta"), Nested("MetaInfo", TRUE)) }

\* class Base(<Document or ImmutableDocument>) with a Meta block, and
\* class Model(Base) with one of the bodies
Program(base, meta, dct) ==
    LET c1 == Define(Builtins, "MetaInfo", <<"ImmutableDocument">>, MetaInfoBody)
        c2 == Define(c1, "Base", <<base>>, [dct |-> EmptyMap, Meta |-> meta])
    IN  Define(c2, "Model", <<"Base">>, [dct |-> dct, Meta |-> EmptyMap])

MetaBlocks == [Options -> BOOLEAN]

\* the raw values the program passes
Scalars == {None, StrV(""), StrV("1"), IntV(1)}
Mappings == {None, DictV(EmptyMap), DictV(Map1(K("login"), StrV("root")))}
ListInputs == {None, ListV(<<>>), ListV(<<StrV("1")>>), ListV(<<StrV("a")>>), StrV("a")}
DictInputs == {None, DictV(EmptyMap), DictV(Map1(<<"a">>, IntV(1))), StrV("a"), IntV(1)}
InputValues(fld) ==
    CASE fld.cls = "DocumentField" -> Mappings
      [] fld.cls = "ListField" -> ListInputs
      [] fld.cls = "DictField" -> DictInputs
      [] OTHER -> Scalars

\* the key no class declares
Extra == K("x")

\* the mappings the program builds td from: any value for any subset of
\* the fields, with or without the undeclared key
Inputs(cs, c) ==
    LET names == DOMAIN cs[c]._fields
        declared == UNION {[ks -> UNION {InputValues(cs[c]._fields[n]) : n \in names}]
                            : ks \in SUBSET names}
        typed == {kw \in declared :
                    \A n \in DOMAIN kw : kw[n] \in InputValues(cs[c]._fields[n])}
    IN  typed \cup {Merge(kw, Map1(Extra, StrV("a"))) : kw \in typed}

\* the same without the undeclared key
DeclaredInputs(cs, c) == {kw \in Inputs(cs, c) : Extra \notin DOMAIN kw}

\* the mappings the program builds the sibling td_2 from: nothing, or a
\* value for every field
SiblingInputs(cs, c) ==
    {kw \in Inputs(cs, c) :
        \/ kw = EmptyMap
        \/ /\ DOMAIN kw = DOMAIN cs[c]._fields
           /\ \A n \in DOMAIN kw :
                kw[n] \in {IntV(1), DictV(Map1(K("login"), StrV("root")))}}

\* the attributes and keys of a document of class c the program writes
Written(cs, c) == {a \in DOMAIN cs[c].dct : TRUE} \cup DOMAIN cs[c]._fields
AttrValues(cs, c, a) ==
    IF a \in DOMAIN cs[c]._fields THEN InputValues(cs[c]._fields[a]) ELSE Scalars
ItemValues == {StrV("baz")}

\* td and the documents nested in it
Working(h) == {loc \in Docs(h) : StartsWith(loc, <<"td">>)}

Start == Stmt("start", <<>>, "", NoName, None, EmptyMap, OK)

Init ==
    /\ \E base \in {"Document", "ImmutableDocument"}, meta \in MetaBlocks,
          dct \in ModelBodies :
          classes = Program(base, meta, dct)
    /\ heap = Map1(NewsLoc, News)
    /\ last = Start

Next ==
    \/ \E kw \in Inputs(classes, "Model") : Construct("td", "Model", kw)
    \/ \E kw \in SiblingInputs(classes, "Model") : Construct("td_2", "Model", kw)
    \/ \E loc \in Working(heap) : \E a \in Written(classes, heap[loc].cls) :
          \E value \in AttrValues(classes, heap[loc].cls, a) :
             SetAttr(loc, a, value)
    \/ \E loc \in Working(heap) : \E k \in Written(classes, heap[loc].cls) :
          \E value \in ItemValues : SetItem(loc, k, value)
    \/ \E loc \in Working(heap) : \E a \in Written(classes, heap[loc].cls) :
          ListAppend(loc, a, StrV("sport"))

Spec == Init /\ [][Next]_vars

(***************************************************************************)
(* The program that defines a class hierarchy, then builds instances       *)
(***************************************************************************)
\* the classes the program defines, in this order
UserClasses == <<"A", "B", "C">>
Defined(cs) == {UserClasses[n] : n \in {m \in 1..Len(UserClasses) : UserClasses[m] \in DOMAIN cs}}
Undefined(cs) == {m \in 1..Len(UserClasses) : UserClasses[m] \notin DOMAIN cs}

\* the base lists Python accepts: one class, or two of which the first is
\* no ancestor of the second (else no consistent order exists: TypeError)
ParentLists(cs) ==
    {<<"Document">>} \cup {<<p>> : p \in Defined(cs)}
    \cup {pq \in {<<p, q>> : p \in Defined(cs), q \in Defined(cs)} :
                ~InOrder(Mro(cs, pq[2]), pq[1])}

\* the class bodies: nothing, name or zip either required or defaulted,
\* or a required name with a defaulted zip
FieldKinds == {Required("SimpleField"), WithDefault("IntegerField", StrV("1"))}
SchemaBodies ==
    UNION {[ks -> FieldKinds] : ks \in {{}, {K("name")}, {K("zip")}}}
    \cup {[k \in {K("name"), K("zip")} |->
              IF k = K("name") THEN Required("SimpleField")
              ELSE WithDefault("IntegerField", StrV("1"))]}

\* a default that is neither None nor callable and that the field's own
\* _typecast refuses
BadDefault(cs, fld) ==
    /\ fld._default.t \notin {"None", "lambda"}
    /\ typecast(cs, fld, fld._default, EmptyMap, <<>>).errs # {}

\* the class statement coerces the defaults and raises on the first that
\* fails
DefineClass_checking_defaults(name, parents, body) ==
    /\ name \notin DOMAIN classes
    /\ IF \E a \in DOMAIN body.dct : BadDefault(classes, body.dct[a])
       THEN /\ classes' = classes
            /\ last' = Stmt("class", <<>>, name, NoName, None, EmptyMap, "ValueError")
       ELSE /\ classes' = Define(classes, name, parents, body)
            /\ last' = Stmt("class", <<>>, name, NoName, None, EmptyMap, OK)
    /\ UNCHANGED heap
\* the statement `class name(parents): body`
DefineClass(name, parents, body) ==
    /\ name \notin DOMAIN classes
    /\ classes' = Define(classes, name, parents, body)
    /\ last' = Stmt("class", <<>>, name, NoName, None, EmptyMap, OK)
    /\ UNCHANGED heap

\* the mappings the program builds an instance of c from
SchemaInputs(cs, c) ==
    UNION {[ks -> {StrV("1")}] : ks \in SUBSET DOMAIN cs[c]._fields}

InitMeta ==
    /\ classes = Builtins
    /\ heap = Map1(NewsLoc, News)
    /\ last = Start

NextMeta ==
    \/ \E m \in Undefined(classes) : \E parents \in ParentLists(classes) :
          \E dct \in SchemaBodies :
             /\ \A k \in Undefined(classes) : m <= k
             /\ <<"td">> \notin DOMAIN heap
             /\ DefineClass(UserClasses[m], parents, [dct |-> dct, Meta |-> EmptyMap])
    \/ \E c \in Defined(classes) : \E kw \in SchemaInputs(classes, c) :
          Construct("td", c, kw)

SpecMeta == InitMeta /\ [][NextMeta]_vars

(***************************************************************************)
(* The program with a list field                                           *)
(***************************************************************************)
\* tags = ListField(of=...), required or not
ListField(of, required) ==
    [_of |-> of] @@ NewField("ListField", "", None, required, {}, NoName, FALSE)

\* class Tag(Document): title = CharField()
TagBody == [dct |-> Map1(K("title"), Plain("CharField")), Meta |-> EmptyMap]
\* the name no class has
Nowhere == "Nope"
\* of=int, of=Tag, of='Tag', of='Nope'
Ofs == {OfCallable("int"), OfClass("Tag"), OfName("Tag"), OfName(Nowhere)}

\* class Page(Document): author = DocumentField(model='Nope')
PageBody == [dct |-> Map1(K("author"), Nested(Nowhere, FALSE)), Meta |-> EmptyMap]

\* class Tag, class Page, then class Post(Document): tags = ListField(of=...)
ProgramList(of, required) ==
    Define(Define(Define(Builtins, "Tag", <<"Document">>, TagBody),
                  "Page", <<"Document">>, PageBody),
           "Post", <<"Document">>,
           [dct |-> Map1(K("tags"), ListField(of, required)), Meta |-> EmptyMap])

\* the elements the program gives: for int '1', 2 and 'a'; for a model a
\* mapping and 'a'
Elements(of) ==
    IF of.k = "callable" THEN {StrV("1"), IntV(2), StrV("a")}
    ELSE {DictV(Map1(K("title"), StrV("a"))), StrV("a")}
\* the lists the program gives: [], one element, or two
TwoOf(of) ==
    IF of.k = "callable" THEN <<StrV("2"), IntV(1)>>
    ELSE <<DictV(Map1(K("title"), StrV("a"))), DictV(EmptyMap)>>
ListsOf(of) == {<<>>, TwoOf(of)} \cup {<<e>> : e \in Elements(of)}
\* what the program gives for tags: a list, or something that is none
NonSequences == {None, StrV(""), StrV("a"), IntV(0), IntV(1), DictV(EmptyMap)}
TagsValues(of) == NonSequences \cup {ListV(l) : l \in ListsOf(of)}
TagsOf(cs) == cs["Post"]._fields[K("tags")]._of

InitList ==
    /\ \E of \in Ofs, required \in BOOLEAN : classes = ProgramList(of, required)
    /\ heap = EmptyMap
    /\ last = Start

NextList ==
    \/ \E kw \in {EmptyMap} \cup [{K("tags")} -> TagsValues(TagsOf(classes))] :
          Construct("td", "Post", kw)
    \/ \E kw \in {EmptyMap} \cup [{K("author")} -> Mappings] :
          Construct("td_2", "Page", kw)
    \/ \E value \in TagsValues(TagsOf(classes)) : SetAttr(<<"td">>, K("tags"), value)
    \/ \E loc \in Lists(heap) : ListRead(loc)
    \/ \E loc \in Lists(heap) : ListLen(loc)
    \/ \E loc \in Lists(heap) : \E value \in Elements(TagsOf(classes)) :
          Len(heap[loc].items) < MaxLen /\ ListTypeAppend(loc, value)
    \/ \E loc \in Lists(heap) : \E value \in Elements(TagsOf(classes)) :
          \E index \in 0..Len(heap[loc].items) :
             Len(heap[loc].items) < MaxLen /\ ListInsert(loc, index, value)
    \/ \E loc \in Lists(heap) : \E values \in ListsOf(TagsOf(classes)) :
          /\ Len(heap[loc].items) + Len(values) <= MaxLen
          /\ ListExtend(loc, values)
    \/ \E loc \in Lists(heap) : \E value \in Elements(TagsOf(classes)) :
          \E index \in 0..Len(heap[loc].items) : ListSetItem(loc, index, value)
    \/ \E loc \in Lists(heap) : \E index \in 0..Len(heap[loc].items) :
          ListDelItem(loc, index)
    \/ \E loc \in Lists(heap) : ListSort(loc)

SpecList == InitList /\ [][NextList]_vars

(***************************************************************************)
(* The program that defines classes of the same name and drops them        *)
(***************************************************************************)
\* Where a name is defined once and its class is never dropped, the
\* registry is the map `classes` itself.  Here a class is kept under its
\* identity, the registry (a WeakValueDictionary from class name to
\* class) is the object at RegistryLoc, and the program holds its classes
\* in the variables x and y.
RegistryLoc == <<"registry">>
RegistryObj(d) == [t |-> "registry", d |-> d]
ClassRef(id) == [t |-> "classref", v |-> id]
Variables == {<<"var", "x">>, <<"var", "y">>}
ClassIds == <<"c1", "c2", "c3">>
ClassNames == {"User", "Tag"}

\* the classes some variable of the program refers to
Bound(h) == {h[var].v : var \in Variables \cap DOMAIN h}
\* the identity the next class object gets
NextId(cs) ==
    ClassIds[CHOOSE n \in 1..Len(ClassIds) :
                /\ ClassIds[n] \notin DOMAIN cs
                /\ \A m \in 1..(n - 1) : ClassIds[m] \in DOMAIN cs]

\* registry.get(name)
registry_get(h, name) ==
    IF name \in DOMAIN h[RegistryLoc].d
    THEN ClassRef(h[RegistryLoc].d[name]) ELSE None

\* var = DocumentMeta(name, (Document,), body): the class is made, then
\* registry[name] = cls; the variable is bound to the class
DefineBound(var, id, name, body) ==
    /\ classes' = Merge(classes,
                        Map1(id, DocumentMeta__new__(classes, name, <<"Document">>, body)))
    /\ heap' = Merge([heap EXCEPT ![RegistryLoc].d = Merge(@, Map1(name, id))],
                     Map1(var, ClassRef(id)))
    /\ last' = Stmt("class", var, id, K(name), None, EmptyMap, OK)

\* del var
Unbind(var) ==
    /\ var \in DOMAIN heap
    /\ heap' = Without(heap, {var})
    /\ last' = Stmt("del", var, heap[var].v, NoName, None, EmptyMap, OK)
    /\ UNCHANGED classes

\* the collector frees a class no variable refers to; the entries of the
\* WeakValueDictionary whose value it was disappear
Collect(id) ==
    /\ id \in DOMAIN classes \ (DOMAIN Builtins \cup Bound(heap))
    /\ classes' = [c \in DOMAIN classes \ {id} |-> classes[c]]
    /\ heap' = [heap EXCEPT ![RegistryLoc].d =
                    [n \in {m \in DOMAIN @ : @[m] # id} |-> @[n]]]
    /\ last' = Stmt("collect", <<>>, id, NoName, None, EmptyMap, OK)

\* registry.get(name)
RegistryGet(name) ==
    /\ last' = Stmt("get", RegistryLoc, "", K(name), registry_get(heap, name),
                    EmptyMap, OK)
    /\ UNCHANGED <<classes, heap>>

InitRegistry ==
    /\ classes = Builtins
    /\ heap = Map1(RegistryLoc, RegistryObj([c \in DOMAIN Builtins |-> c]))
    /\ last = Start

NextRegistry ==
    \/ \E var \in Variables, name \in ClassNames :
       \E dct \in {EmptyMap, Map1(K("name"), Plain("CharField"))} :
          /\ \E n \in 1..Len(ClassIds) : ClassIds[n] \notin DOMAIN classes
          /\ DefineBound(var, NextId(classes), name, [dct |-> dct, Meta |-> EmptyMap])
    \/ \E var \in Variables : Unbind(var)
    \/ \E id \in DOMAIN classes : Collect(id)
    \/ \E name \in ClassNames : RegistryGet(name)

SpecRegistry == InitRegistry /\ [][NextRegistry]_vars

(***************************************************************************)
(* The program whose classes declare defaults, good and bad                *)
(***************************************************************************)
\* id = IntegerField(), IntegerField(default='1'), IntegerField(default=1)
\* or IntegerField(default='a')
DefaultKinds ==
    { Plain("IntegerField"), WithDefault("IntegerField", StrV("1")),
      WithDefault("IntegerField", IntV(1)), WithDefault("IntegerField", StrV("a")) }
DefaultBodies == {EmptyMap} \cup [{K("id")} -> DefaultKinds]

NextDefaults ==
    \/ \E m \in Undefined(classes) :
          \E parents \in {<<"Document">>} \cup {<<p>> : p \in Defined(classes)} :
          \E dct \in DefaultBodies :
          \E meta \in {mb \in MetaBlocks : ~mb["ALLOW_EXTRA_FIELDS"]} :
             /\ \A k \in Undefined(classes) : m <= k
             /\ UserClasses[m] # "C"
             /\ <<"td">> \notin DOMAIN heap
             /\ DefineClass(UserClasses[m], parents, [dct |-> dct, Meta |-> meta])
    \/ \E c \in Defined(classes) : \E kw \in DeclaredInputs(classes, c) :
          Construct("td", c, kw)

SpecDefaults == InitMeta /\ [][NextDefaults]_vars

(***************************************************************************)
(* The program whose class declares validate_<field> hooks                 *)
(***************************************************************************)
\* @staticmethod def validate_password(document, value): raises
\* ModelValidationError when document.level is 1 and the value is '1'
PasswordHook ==
    [kind |-> "function", other |-> K("level"), bad |-> {<<StrV("1"), IntV(1)>>}]
\* def validate_password(self, value): the same body, no staticmethod, so
\* getattr(self, ...) is a bound method
PasswordMethod == [PasswordHook EXCEPT !.kind = "method"]
\* @staticmethod def validate_level(document, value): raises when the
\* level is 1 and document.password is the empty string
LevelHook ==
    [kind |-> "function", other |-> K("password"), bad |-> {<<IntV(1), StrV("")>>}]
HookSets ==
    { Map1(K("password"), PasswordHook),
      Map1(K("password"), PasswordMethod),
      Map1(K("level"), LevelHook),
      Merge(Map1(K("password"), PasswordHook), Map1(K("level"), LevelHook)) }

\* class User(Document): password = CharField(); level = IntegerField(),
\* the password required or not
UserBodies ==
    {[k \in {K("password"), K("level")} |->
         IF k = K("password") THEN password ELSE Plain("IntegerField")] :
            password \in {Plain("CharField"), Required("CharField")}}

\* class Account(User): nothing of its own
ProgramHooks(meta, dct, hooks) ==
    Define(Define(Builtins, "User", <<"Document">>,
                  [dct |-> dct, Meta |-> meta, hooks |-> hooks]),
           "Account", <<"User">>, NoBody)

InitHooks ==
    /\ \E meta \in {m \in MetaBlocks : ~m["ALLOW_EXTRA_FIELDS"]}, dct \in UserBodies, hooks \in HookSets :
          classes = ProgramHooks(meta, dct, hooks)
    /\ heap = Map1(NewsLoc, News)
    /\ last = Start

NextHooks ==
    \/ \E kw \in DeclaredInputs(classes, "User") : Construct("td", "User", kw)
    \/ \E kw \in SiblingInputs(classes, "Account") : Construct("td_2", "Account", kw)

SpecHooks == InitHooks /\ [][NextHooks]_vars

(***************************************************************************)
(* The program whose class declares one field of every kind of option      *)
(***************************************************************************)
\* attrs = DictField(), required or not
DictField(required) == NewField("DictField", "", None, required, {}, NoName, FALSE)
\* id = IntegerField(name='user id')
VerboseName == K("user id")
Named(cls, name) == NewField(cls, "", None, FALSE, {}, name, FALSE)
\* level = CharField(choices=['1', '2'])
Levels == {StrV("1"), StrV("2")}
Choice(cls, choices) == NewField(cls, "", None, FALSE, choices, NoName, FALSE)

\* the bodies of class Model: a container field (nested document, list,
\* mapping), a field with a verbose name, with choices, with a default
FieldBodies ==
    { Map1(K("meta"), Nested("MetaInfo", FALSE)),
      Map1(K("meta"), Nested("MetaInfo", TRUE)),
      Map1(K("tags"), ListField(OfCallable("int"), FALSE)),
      Map1(K("tags"), ListField(OfCallable("int"), TRUE)),
      Map1(K("attrs"), DictField(FALSE)),
      Map1(K("attrs"), DictField(TRUE)),
      Map1(K("id"), Named("IntegerField", VerboseName)),
      Map1(K("level"), Choice("CharField", Levels)),
      Map1(K("zip"), WithDefault("IntegerField", StrV("2"))) }

InitFields ==
    /\ \E meta \in MetaBlocks, dct \in FieldBodies :
          classes = Program("Document", meta, dct)
    /\ heap = EmptyMap
    /\ last = Start

NextFields ==
    \/ \E kw \in Inputs(classes, "Model") : Construct("td", "Model", kw)
    \/ \E a \in Written(classes, "Model") :
          \E value \in AttrValues(classes, "Model", a) :
             SetAttr(<<"td">>, a, value)

SpecFields == InitFields /\ [][NextFields]_vars

(***************************************************************************)
(* The program that gives one Address to two Persons                       *)
(***************************************************************************)
\* class Address(Document): street = SimpleField()
AddressBody == [dct |-> Map1(K("street"), Plain("SimpleField")), Meta |-> EmptyMap]
\* class Person(Document): address = DocumentField(model=Address)
PersonBody == [dct |-> Map1(K("address"), Nested("Address", FALSE)), Meta |-> EmptyMap]
ProgramNested ==
    Define(Define(Builtins, "Address", <<"Document">>, AddressBody),
           "Person", <<"Document">>, PersonBody)

\* the variable address_1, and the two persons
Address1 == <<"address_1">>
Persons == {"td", "td_2"}
Streets == {StrV("Park Boulevard"), StrV("Edsel Road")}

\* what the program assigns to an address field: the instance address_1
\* once it is built, a raw mapping, nothing
AddressValues(h) ==
    {None, DictV(Map1(K("street"), StrV("Park Boulevard")))}
        \cup {RefV(l) : l \in {Address1} \cap DOMAIN h}

\* person.address and person['address']
Reads == {"attr", "item"}
Held(cs, h, p, how) ==
    IF <<p>> \notin DOMAIN h THEN None
    ELSE IF how = "attr" THEN GetAttr(cs, h, <<p>>, K("address"))
    ELSE GetItem(h, <<p>>, K("address"))
\* the addresses the program can write through: address_1 and the ones the
\* persons hold
HeldRefs(cs, h) ==
    {r \in {Held(cs, h, p, how) : p \in Persons, how \in Reads} : r.t = "ref"}
Reachable(cs, h) == ({Address1} \cap DOMAIN h) \cup {r.v : r \in HeldRefs(cs, h)}

InitNested ==
    /\ classes = ProgramNested
    /\ heap = EmptyMap
    /\ last = Start

NextNested ==
    \/ /\ Address1 \notin DOMAIN heap
       /\ \E street \in Streets :
             Construct("address_1", "Address", Map1(K("street"), street))
    \/ \E p \in Persons : \E value \in AddressValues(heap) :
          Construct(p, "Person", Map1(K("address"), value))
    \/ \E p \in Persons : \E value \in AddressValues(heap) :
          SetAttr(<<p>>, K("address"), value)
    \/ \E p \in Persons : \E value \in AddressValues(heap) :
          SetItem(<<p>>, K("address"), value)
    \/ \E loc \in Reachable(classes, heap) : \E street \in Streets :
          SetAttr(loc, K("street"), street)

SpecNested == InitNested /\ [][NextNested]_vars

(***************************************************************************)
(* The program that builds a User through Document.create                  *)
(***************************************************************************)
\* the names 'User_', 'User_name' and 'aUser_b', spelled as words
Prefix == <<"User", "_">>
PrefixedName == <<"User", "_", "name">>
Containing == <<"a", "User", "_", "b">>

\* class User(Document): name = CharField(); self = CharField();
\* User_ = CharField(), with or without ALLOW_EXTRA_FIELDS
UserFields ==
    [k \in {K("name"), K("self"), Prefix} |-> Plain("CharField")]
ProgramCreate(allow) ==
    Define(Builtins, "User", <<"Document">>,
           [dct |-> UserFields,
            Meta |-> [o \in Options |-> o = "ALLOW_EXTRA_FIELDS" /\ allow]])

\* the mappings the program passes: any of the keys, with one value
CreateKeys == {K("name"), K("self"), Prefix, PrefixedName, Containing}
CreateInputs == UNION {[ks -> {StrV("John")}] : ks \in SUBSET CreateKeys}

\* i = c.create(kwargs): cls(**cls._protect_fields(kwargs))
Factory(i, c, kwargs, made) ==
    IF made.errs = {}
    THEN /\ heap' = Merge(Without(heap, Below(heap, <<i>>)), made.objs)
         /\ last' = Stmt("create", <<i>>, c, NoName, None, kwargs, OK)
    ELSE /\ heap' = heap
         /\ \E e \in made.errs :
               last' = Stmt("create", <<i>>, c, NoName, None, kwargs, e)
Create(i, c, kwargs) ==
    /\ Factory(i, c, kwargs,
               NewDocument(classes, c, protect_fields(c, kwargs), heap, <<i>>))
    /\ UNCHANGED classes

\* the call c._unprotect_fields(c._protect_fields(kwargs))
RoundTrip(c, kwargs) ==
    /\ last' = Stmt("unprotect", <<>>, c, NoName, None, kwargs, OK)
                  @@ [ret |-> unprotect_fields(c, protect_fields(c, kwargs))]
    /\ UNCHANGED <<classes, heap>>

InitCreate ==
    /\ \E allow \in BOOLEAN : classes = ProgramCreate(allow)
    /\ heap = EmptyMap
    /\ last = Start

NextCreate ==
    \/ \E kwargs \in CreateInputs : Construct("td", "User", kwargs)
    \/ \E kwargs \in CreateInputs : Create("td", "User", kwargs)
    \/ \E kwargs \in CreateInputs : RoundTrip("User", kwargs)

SpecCreate == InitCreate /\ [][NextCreate]_vars

(***************************************************************************)
(* The program that defines a class hierarchy, builds an instance and      *)
(* writes its attributes                                                   *)
(***************************************************************************)
NextInherit ==
    \/ \E m \in Undefined(classes) : \E parents \in ParentLists(classes) :
          \E dct \in SchemaBodies :
             /\ \A k \in Undefined(classes) : m <= k
             /\ <<"td">> \notin DOMAIN heap
             /\ DefineClass(UserClasses[m], parents, [dct |-> dct, Meta |-> EmptyMap])
    \/ \E c \in Defined(classes) : Construct("td", c, EmptyMap)
    \/ \E a \in {K("name"), K("zip")} : SetAttr(<<"td">>, a, StrV("1"))

SpecInherit == InitMeta /\ [][NextInherit]_vars

(***************************************************************************)
(* The mapping interface a document inherits: AttributeDict is a dict, and *)
(* no class of models.py overrides these methods                           *)
(***************************************************************************)
\* del doc[k]
dict_delitem(h, loc, k) ==
    IF k \notin DOMAIN h[loc].d THEN Fails({"KeyError"}, h)
    ELSE Done([h EXCEPT ![loc].d = [x \in DOMAIN @ \ {k} |-> @[x]]])
\* doc.pop(k)
dict_pop(h, loc, k) == dict_delitem(h, loc, k)
\* doc.update(m)
dict_update(h, loc, m) == Done([h EXCEPT ![loc].d = Merge(@, m)])
\* doc.setdefault(k, value)
dict_setdefault(h, loc, k, value) ==
    IF k \in DOMAIN h[loc].d THEN Done(h)
    ELSE Done([h EXCEPT ![loc].d = Merge(@, Map1(k, value))])
\* doc.clear()
dict_clear(h, loc) == Done([h EXCEPT ![loc].d = EmptyMap])

MappingOps == {"delitem", "update", "pop", "setdefault", "clear"}
\* one statement of the mapping interface on the document at loc
MappingCall(op, loc, k, value) ==
    /\ loc \in Docs(heap)
    /\ Wrote(op, loc, k, value,
             CASE op = "delitem" -> dict_delitem(heap, loc, k)
               [] op = "pop" -> dict_pop(heap, loc, k)
               [] op = "update" -> dict_update(heap, loc, Map1(k, value))
               [] op = "setdefault" -> dict_setdefault(heap, loc, k, value)
               [] OTHER -> dict_clear(heap, loc))
    /\ UNCHANGED classes

\* class Model(<Document or ImmutableDocument>) with a name or with a
\* nested MetaInfo, itself an ImmutableDocument
MappingBodies ==
    {Map1(K("name"), Plain("SimpleField")), Map1(K("meta"), Nested("MetaInfo", FALSE))}
MappingKeys(cs, c) == DOMAIN cs[c]._fields \cup {Extra}

InitMapping ==
    /\ \E base \in {"Document", "ImmutableDocument"}, dct \in MappingBodies :
          classes = Program(base, [o \in Options |-> FALSE], dct)
    /\ heap = EmptyMap
    /\ last = Start

NextMapping ==
    \/ \E kw \in DeclaredInputs(classes, "Model") : Construct("td", "Model", kw)
    \/ \E loc \in Working(heap) : \E a \in MappingKeys(classes, heap[loc].cls) :
          SetAttr(loc, a, StrV("baz"))
    \/ \E loc \in Working(heap) : \E k \in MappingKeys(classes, heap[loc].cls) :
          SetItem(loc, k, StrV("baz"))
    \/ \E loc \in Working(heap) : \E k \in MappingKeys(classes, heap[loc].cls) :
          \E op \in MappingOps : MappingCall(op, loc, k, StrV("baz"))

SpecMapping == InitMapping /\ [][NextMapping]_vars

(***************************************************************************)
(* validators.py: the TypeValidator classes                                *)
(***************************************************************************)
\* The validator classes are objects of the heap: TYPE is the class
\* attribute, backup the class attribute '__BACKUP_TYPE' (Unset before the
\* first using(); getattr(cls, '__BACKUP_TYPE', None) then gives None).
\* Types are named: NoType is None, "Money" is a subclass of
\* DictEmbeddedDocument.
NoType == "None"
Unset == "unset"
Embedding == "DictEmbeddedDocument"
ValidatorLoc(V) == <<"validators", V>>
ValidatorObj(type, backup) == [t |-> "validator", TYPE |-> type, backup |-> backup]
\* an instance of an embedded-document class
Embedded(T) == [t |-> "embedded", v |-> T]

\* the classes of the module that the program uses, as defined
ValidatorTypes ==
    [V \in {"NullValidator", "IntValidator", "DictEmbeddedDocumentValidator"} |->
        CASE V = "IntValidator" -> "int"
          [] V = "DictEmbeddedDocumentValidator" -> Embedding
          [] OTHER -> NoType]

\* TypeValidator.using
TypeValidator_using(h, V, value) ==
    [h EXCEPT ![V].backup = h[V].TYPE, ![V].TYPE = value]

\* TypeValidator._clean_validate: TYPE is put back when the backup is
\* truthy
TypeValidator_clean_validate(h, V) ==
    [h EXCEPT ![V].TYPE = IF h[V].backup \notin {Unset, NoType} THEN h[V].backup ELSE @,
              ![V].backup = NoType]

\* cls.TYPE(value) for the types of the model
CallType(T, value) ==
    CASE T = "int" -> int(value)
      [] OTHER -> Ret(Embedded(T), EmptyMap)

\* the outcome of a validate: the exception or the value returned, and
\* the heap it leaves
Validation(errs, val, h) == [errs |-> errs, val |-> val, h |-> h]

\* TypeValidator.validate: nothing for TYPE None; else TYPE(value), a
\* ValueError raised as ValidationError, _clean_validate in the finally
\* clause and once more on the way out
Converted(r, V, cleaned) ==
    IF r.errs = {}
    THEN Validation({}, r.val, TypeValidator_clean_validate(cleaned, V))
    ELSE Validation({IF e = "ValueError" THEN "ValidationError" ELSE e : e \in r.errs},
                    None, cleaned)
TypeValidator_validate(h, V, value) ==
    IF h[V].TYPE = NoType
    THEN Validation({}, value, TypeValidator_clean_validate(h, V))
    ELSE Converted(CallType(h[V].TYPE, value), V, TypeValidator_clean_validate(h, V))

\* DictEmbeddedDocumentValidator.validate (issubclass(None, ...) is a
\* TypeError)
DictEmbeddedDocumentValidator_validate(h, V, value) ==
    CASE value.t = "embedded" -> Validation({}, value, h)
      [] value.t # "dict" -> Validation({"ValidationError"}, None, h)
      [] h[V].TYPE = NoType -> Validation({"TypeError"}, None, h)
      [] h[V].TYPE = "int" -> Validation({"ValidationError"}, None, h)
      [] OTHER -> Validation({}, Embedded(h[V].TYPE), h)

\* <validator class>.validate(value)
validator_validate(h, V, value) ==
    IF V = ValidatorLoc("DictEmbeddedDocumentValidator")
    THEN DictEmbeddedDocumentValidator_validate(h, V, value)
    ELSE TypeValidator_validate(h, V, value)

\* get_validator(type_cls): the class of VALIDATORS_MAP, or for a type
\* whose last base is DictEmbeddedDocument the embedded-document
\* validator after using(type_cls)
VALIDATORS_MAP ==
    [T \in {NoType, "int", Embedding} |->
        CASE T = NoType -> "NullValidator"
          [] T = "int" -> "IntValidator"
          [] OTHER -> "DictEmbeddedDocumentValidator"]
get_validator(h, type_cls) ==
    IF type_cls \in DOMAIN VALIDATORS_MAP
    THEN [V |-> ValidatorLoc(VALIDATORS_MAP[type_cls]), h |-> h]
    ELSE [V |-> ValidatorLoc(VALIDATORS_MAP[Embedding]),
          h |-> TypeValidator_using(h, ValidatorLoc(VALIDATORS_MAP[Embedding]), type_cls)]

\* a statement on the validator class V and its outcome; `before` is the
\* TYPE of V before the statement, `type` the T the statement asked for
Validating(op, V, T, value, r) ==
    /\ heap' = r.h
    /\ \E e \in (IF r.errs = {} THEN {OK} ELSE r.errs) :
          last' = Stmt(op, V, V[2], NoName, value, EmptyMap, e)
                      @@ [type |-> T, before |-> heap[V].TYPE, ret |-> r.val]
    /\ UNCHANGED classes

\* <V>.validate(value)
Validate(V, value) ==
    Validating("validate", V, heap[V].TYPE, value, validator_validate(heap, V, value))
\* <V>.using(T).validate(value)
UsingValidate(V, T, value) ==
    Validating("using", V, T, value,
               validator_validate(TypeValidator_using(heap, V, T), V, value))
\* get_validator(T).validate(value)
Got(T, value, got) ==
    Validating("get_validator", got.V, T, value, validator_validate(got.h, got.V, value))
GetValidatorValidate(T, value) == Got(T, value, get_validator(heap, T))

\* the types and values the program uses
Types == {NoType, "int", "Money"}
ValidatedValues == {StrV("1"), StrV("a"), DictV(EmptyMap)}

InitValidators ==
    /\ classes = Builtins
    /\ heap = [l \in {ValidatorLoc(V) : V \in DOMAIN ValidatorTypes} |->
                  ValidatorObj(ValidatorTypes[l[2]], Unset)]
    /\ last = Start

NextValidators ==
    \/ \E V \in DOMAIN heap, value \in ValidatedValues : Validate(V, value)
    \/ \E V \in DOMAIN heap, T \in Types, value \in ValidatedValues :
          UsingValidate(V, T, value)
    \/ \E T \in Types \cup {Embedding}, value \in ValidatedValues :
          GetValidatorValidate(T, value)

SpecValidators == InitValidators /\ [][NextValidators]_vars

(***************************************************************************)
(* The program that exports an instance and builds another from the export *)
(***************************************************************************)
\* class Visit(Document): at = DateTimeField()
VisitBody == [dct |-> Map1(K("at"), Plain("DateTimeField")), Meta |-> EmptyMap]

\* the bodies of class Event: a datetime field, a nested Visit, a list of
\* Visit, a list of int, a list of digests
EventBodies ==
    { Map1(K("at"), Plain("DateTimeField")),
      Map1(K("at"), WithDefault("DateTimeField", IntV(2))),
      Map1(K("visit"), Nested("Visit", FALSE)),
      Map1(K("visits"), ListField(OfClass("Visit"), FALSE)),
      Map1(K("codes"), ListField(OfCallable("int"), FALSE)),
      Map1(K("hashes"), ListField(OfCallable("sha256"), FALSE)) }

\* class Visit, then class Event(Document) with a Meta block
ProgramExport(meta, dct) ==
    Define(Define(Builtins, "Visit", <<"Document">>, VisitBody),
           "Event", <<"Document">>, [dct |-> dct, Meta |-> meta])

\* the values the program gives a datetime field: None, strings in the
\* format and not, a timestamp, datetimes with and without microseconds
Dates ==
    {None, StrV(DateStrings[1]), StrV(DateStrings[2]), StrV("a"), IntV(1),
     DateV(0, 0), DateV(1, 5)}
Visits == {DictV(EmptyMap)} \cup {DictV(Map1(K("at"), d)) : d \in {IntV(1), DateV(1, 5)}}
\* the values the program gives a field of Event
ExportValues(fld) ==
    CASE fld.cls = "DateTimeField" -> Dates
      [] fld.cls = "DocumentField" -> {None} \cup Visits
      [] fld._of = OfClass("Visit") ->
            {None, ListV(<<>>)} \cup {ListV(<<v>>) : v \in Visits}
      [] fld._of = OfCallable("int") ->
            {None, ListV(<<>>), ListV(<<StrV("1"), IntV(2)>>), ListV(<<StrV("a")>>)}
      [] OTHER -> {None, ListV(<<>>), ListV(<<StrV("a")>>), ListV(<<StrV("a"), StrV("b")>>)}
\* the mappings the program builds td from: nothing, or a value for the
\* field, with or without the undeclared key
ExportInputs(cs) ==
    {EmptyMap, Map1(Extra, StrV("a"))}
        \cup UNION {{Map1(n, v), Merge(Map1(n, v), Map1(Extra, StrV("a")))} :
                       n \in DOMAIN cs["Event"]._fields,
                       v \in UNION {ExportValues(cs["Event"]._fields[m]) :
                                        m \in DOMAIN cs["Event"]._fields}}

\* data = <instance>.as_dict()
Export(loc) ==
    /\ loc \in DOMAIN heap
    /\ last' = Stmt("as_dict", loc, heap[loc].cls, NoName,
                     DictV(as_dict(classes, heap[loc], heap)), EmptyMap, OK)
    /\ UNCHANGED <<classes, heap>>

\* td_2 = Event(td.as_dict())
Reimport(data) == Construct("td_2", "Event", data)

InitExport ==
    /\ \E meta \in MetaBlocks, dct \in EventBodies : classes = ProgramExport(meta, dct)
    /\ heap = EmptyMap
    /\ last = Start

NextExport ==
    \/ \E kw \in ExportInputs(classes) : Construct("td", "Event", kw)
    \/ \E loc \in {<<"td">>, <<"td_2">>} : Export(loc)
    \/ <<"td">> \in DOMAIN heap
          /\ Reimport(as_dict(classes, heap[<<"td">>], heap))

SpecExport == InitExport /\ [][NextExport]_vars

(***************************************************************************)
(* Properties                                                              *)
(***************************************************************************)
TD == <<"td">>
TD2 == <<"td_2">>

\* the schema of class c, and kwargs.get(n)
Schema(c) == classes[c]._fields
Given(kw, n) == IF n \in DOMAIN kw THEN kw[n] ELSE None

\* the attribute a of class c is a field declared immutable
ImmutableAttr(c, a) ==
    /\ Descriptor(classes, c, a) # NoField
    /\ Descriptor(classes, c, a)._immutable

\* C1 (as claimed): a required field without default makes construction
\* fail with FieldRequiredError when its key is absent, None or '', and
\* construction succeeds when the value is a non-empty string.
C1_Original ==
    last.op = "init" =>
        \A n \in DOMAIN Schema(last.cls) :
            (Schema(last.cls)[n].required /\ Schema(last.cls)[n]._default = None) =>
                /\ Given(last.kw, n) \in {None, StrV("")} =>
                        last.err = "FieldRequiredError"
                /\ (Given(last.kw, n).t = "str" /\ Given(last.kw, n).v # "") =>
                        last.err = OK

\* C1 (amended): the claim holds for a required SimpleField or CharField
\* without default.  For a required IntegerField an absent or None value
\* fails with FieldRequiredError but '' fails in the coercion, with
\* ValueError; a required nested-document field that is absent or None is
\* built from the empty mapping and construction succeeds.
C1_RequiredByKind ==
    last.op = "init" =>
        \A n \in DOMAIN Schema(last.cls) :
            (Schema(last.cls)[n].required /\ Schema(last.cls)[n]._default = None) =>
                CASE Schema(last.cls)[n].cls \in {"SimpleField", "CharField"} ->
                        /\ Given(last.kw, n) \in {None, StrV("")} =>
                                last.err = "FieldRequiredError"
                        /\ (Given(last.kw, n).t = "str" /\ Given(last.kw, n).v # "") =>
                                last.err = OK
                  [] Schema(last.cls)[n].cls = "IntegerField" ->
                        /\ Given(last.kw, n) = None => last.err = "FieldRequiredError"
                        /\ Given(last.kw, n) = StrV("") => last.err = "ValueError"
                  [] Schema(last.cls)[n].cls = "DocumentField" ->
                        Given(last.kw, n) = None => last.err = OK
                  [] OTHER -> TRUE

\* a required CharField given '' has just made a construction fail
C1_Witness ==
    /\ last.op = "init"
    /\ last.err = "FieldRequiredError"
    /\ K("title") \in DOMAIN last.kw
    /\ last.kw[K("title")] = StrV("")
    /\ Schema(last.cls)[K("title")].required

\* C2: an ImmutableDocument is constructed with the given or default
\* values stored; afterwards every attribute write and every item write on
\* it fails with ImmutableDocumentError and changes nothing, also when it
\* is the nested document of a mutable parent, whose own nested-document
\* field can still be written.
C2_ImmutableDocument ==
    [][ /\ (last'.op = "init" /\ last'.err = OK
                /\ IsImmutableDocument(classes, last'.cls)) =>
            \A n \in DOMAIN Schema(last'.cls) :
                /\ (Schema(last'.cls)[n].cls = "SimpleField"
                        /\ Given(last'.kw, n) # None) =>
                     /\ GetItem(heap', last'.loc, n) = Given(last'.kw, n)
                     /\ GetAttr(classes, heap', last'.loc, n) = Given(last'.kw, n)
                /\ (Schema(last'.cls)[n].cls \in {"SimpleField", "CharField"}
                        /\ Given(last'.kw, n) = None
                        /\ Schema(last'.cls)[n]._default.t = "str") =>
                     /\ GetItem(heap', last'.loc, n) = Schema(last'.cls)[n]._default
                     /\ GetAttr(classes, heap', last'.loc, n) = Schema(last'.cls)[n]._default
        /\ (last'.op \in {"setattr", "setitem"}
                /\ IsImmutableDocument(classes, last'.cls)) =>
            /\ last'.err = "ImmutableDocumentError"
            /\ heap' = heap
        /\ (last'.op = "setattr" /\ ~IsImmutableDocument(classes, last'.cls)
                /\ last'.key \in DOMAIN Schema(last'.cls)
                /\ Schema(last'.cls)[last'.key].cls = "DocumentField") =>
            /\ last'.err = OK
            /\ GetAttr(classes, heap', last'.loc, last'.key) = RefV(last'.loc \o last'.key)
      ]_vars

\* a write to the immutable document nested in a mutable td was refused
C2_Witness ==
    /\ last.op = "setattr"
    /\ last.loc = TD \o K("meta")
    /\ last.err = "ImmutableDocumentError"
    /\ ~IsImmutableDocument(classes, heap[TD].cls)
    /\ IsImmutableDocument(classes, heap[last.loc].cls)

\* C3 (as claimed): every attribute write to a field declared immutable
\* fails with ImmutableFieldError.
C3_Original ==
    [][ (last'.op = "setattr" /\ ImmutableAttr(last'.cls, last'.key)) =>
            last'.err = "ImmutableFieldError" ]_vars

\* C3 (amended): every attribute write to a field declared immutable
\* fails, with ImmutableFieldError in a document that is no
\* ImmutableDocument and with ImmutableDocumentError in one that is, and no
\* statement other than a construction changes the value read from the
\* field.
C3_ImmutableField ==
    [][ /\ (last'.op = "setattr" /\ ImmutableAttr(last'.cls, last'.key)) =>
            /\ last'.err = IF IsImmutableDocument(classes, last'.cls)
                           THEN "ImmutableDocumentError" ELSE "ImmutableFieldError"
            /\ heap' = heap
        /\ last'.op # "init" =>
            \A loc \in Docs(heap) : \A a \in DOMAIN classes[heap[loc].cls].dct :
                ImmutableAttr(heap[loc].cls, a) =>
                    /\ loc \in Docs(heap')
                    /\ GetAttr(classes, heap', loc, a) = GetAttr(classes, heap, loc, a)
      ]_vars

\* a write to the immutable field of td, which holds 1 since construction,
\* was refused
C3_Witness ==
    /\ last.op = "setattr"
    /\ last.loc = TD
    /\ last.err = "ImmutableFieldError"
    /\ ImmutableAttr(last.cls, last.key)
    /\ GetAttr(classes, heap, TD, last.key) = IntV(1)
    /\ last.val # IntV(1)

\* C4: after a successful attribute write or item write to a schema
\* field, reading the field by attribute and by key gives the same value,
\* the one written (a SimpleField stores it as it is).
C4_AttributeEqualsKey ==
    (last.op \in {"setattr", "setitem"} /\ last.err = OK
        /\ last.key \in DOMAIN Schema(last.cls)) =>
            /\ GetAttr(classes, heap, last.loc, last.key) = GetItem(heap, last.loc, last.key)
            /\ Schema(last.cls)[last.key].cls = "SimpleField" =>
                    GetItem(heap, last.loc, last.key) = last.val

\* the field n of the model has a mutable default
MutableDefault(n) == Schema("Model")[n]._default.t \in {"lambda", "ref"}

\* the list a document holds under attribute a, if it holds one
ListOf(loc, a) ==
    IF GetAttr(classes, heap, loc, a).t = "ref"
    THEN heap[GetAttr(classes, heap, loc, a).v]
    ELSE ListObj(<<>>)

\* C5: instances built without a value for a field with a mutable default
\* hold copies of it: the declared default is never changed, an instance
\* just built without input holds a list equal to it in an object of its
\* own, two instances never hold the same object, and the sibling's list
\* stays the declared default whatever is appended through the first.
C5_MutableDefaultCopied ==
    /\ heap[NewsLoc] = News
    /\ \A n \in DOMAIN Schema("Model") : MutableDefault(n) =>
        /\ (last.op = "init" /\ last.err = OK /\ Given(last.kw, n) = None) =>
                /\ GetAttr(classes, heap, last.loc, n).t = "ref"
                /\ GetAttr(classes, heap, last.loc, n).v # NewsLoc
                /\ ListOf(last.loc, n) = News
        /\ (TD \in Docs(heap) /\ TD2 \in Docs(heap)
                /\ GetAttr(classes, heap, TD, n).t = "ref"
                /\ GetAttr(classes, heap, TD2, n).t = "ref") =>
                GetAttr(classes, heap, TD, n) # GetAttr(classes, heap, TD2, n)
        /\ (TD2 \in Docs(heap) /\ GetAttr(classes, heap, TD2, n).t = "ref") =>
                ListOf(TD2, n) = News

\* td's list was appended to, and td_2, built after that without input,
\* holds the declared default
C5_Witness ==
    /\ last.op = "init"
    /\ last.loc = TD2
    /\ last.err = OK
    /\ last.kw = EmptyMap
    /\ TD \in Docs(heap)
    /\ K("tags") \in DOMAIN Schema("Model")
    /\ ListOf(TD, K("tags")) = ListObj(<<StrV("news"), StrV("sport")>>)
    /\ ListOf(TD2, K("tags")) = News

\* C6: no statement changes a class or a Field object (name, default,
\* required, choices, validator chain) nor the object a default was
\* declared with, and a write through td changes nothing of td_2.
C6_FieldsReadOnly ==
    [][ /\ classes' = classes
        /\ heap'[NewsLoc] = heap[NewsLoc]
        /\ \A c \in DOMAIN classes : \A n \in DOMAIN classes[c]._fields :
                FieldDefault(classes'[c]._fields[n], heap', TD)
                    = FieldDefault(classes[c]._fields[n], heap, TD)
        /\ (last'.op \in {"setattr", "setitem", "append"} /\ StartsWith(last'.loc, TD)) =>
                \A l \in Below(heap, TD2) : l \in DOMAIN heap' /\ heap'[l] = heap[l]
      ]_vars

\* a field of td was set to a value td_2 does not hold
C6_Witness ==
    /\ last.op = "setattr"
    /\ last.loc = TD
    /\ last.err = OK
    /\ TD2 \in Docs(heap)
    /\ last.key \in DOMAIN Schema(last.cls)
    /\ GetAttr(classes, heap, TD, last.key) # GetAttr(classes, heap, TD2, last.key)

\* the names class c declares itself, its parents and its ancestors
OwnNames(c) == {FieldName(classes[c].dct[a]) : a \in DOMAIN classes[c].dct}
ParentsOf(c) ==
    {classes[c]._parents[i] : i \in 1..Len(classes[c]._parents)} \cap DOMAIN classes
AncestorsOf(c) ==
    {Mro(classes, c)[i] : i \in 2..Len(Mro(classes, c))} \cap DOMAIN classes

\* the construction `last` records treated field n as fld says: a
\* required field that got no value made it fail, and what is stored is
\* the value '1' as fld coerces it (the default of the IntegerField too)
ConstructionUses(fld, n) ==
    /\ (fld.required /\ n \notin DOMAIN last.kw) => last.err = "FieldRequiredError"
    /\ last.err = OK =>
            GetItem(heap, last.loc, n)
                = IF fld.cls = "IntegerField" THEN IntV(1) ELSE StrV("1")

\* C7: the schema of a class holds the names of every ancestor's schema
\* and its own declared names, and nothing else; a field the class
\* declares is in the schema as declared, replacing an inherited one of
\* that name; a name it does not declare maps to the Field object of a
\* parent's schema; and construction treats each field as that Field says.
C7_SchemaInheritance ==
    /\ \A c \in Defined(classes) :
        /\ \A p \in AncestorsOf(c) : DOMAIN Schema(p) \subseteq DOMAIN Schema(c)
        /\ DOMAIN Schema(c)
              = OwnNames(c) \cup UNION {DOMAIN Schema(p) : p \in ParentsOf(c)}
        /\ \A a \in DOMAIN classes[c].dct :
              Schema(c)[FieldName(classes[c].dct[a])] = classes[c].dct[a]
        /\ \A n \in DOMAIN Schema(c) \ OwnNames(c) :
              \E p \in ParentsOf(c) :
                 n \in DOMAIN Schema(p) /\ Schema(c)[n] = Schema(p)[n]
    /\ last.op = "init" =>
        \A n \in DOMAIN Schema(last.cls) :
            IF n \in OwnNames(last.cls)
            THEN \A a \in DOMAIN classes[last.cls].dct :
                    FieldName(classes[last.cls].dct[a]) = n =>
                        ConstructionUses(classes[last.cls].dct[a], n)
            ELSE \E p \in ParentsOf(last.cls) :
                    n \in DOMAIN Schema(p) /\ ConstructionUses(Schema(p)[n], n)

\* an instance of a class that redeclares a parent's required field with
\* a default was built without a value for it, and without a value for a
\* defaulted field it inherits
C7_Witness ==
    /\ last.op = "init"
    /\ last.err = OK
    /\ last.kw = EmptyMap
    /\ \E p \in ParentsOf(last.cls) \cap Defined(classes) :
          /\ \E n \in OwnNames(last.cls) \cap DOMAIN Schema(p) :
                Schema(p)[n].required /\ ~Schema(last.cls)[n].required
          /\ \E n \in DOMAIN Schema(p) \ OwnNames(last.cls) :
                Schema(last.cls)[n] = Schema(p)[n]

\* the options of the class of the instance `last` is about
Allow == classes[last.cls]._meta["ALLOW_EXTRA_FIELDS"]
Omit == classes[last.cls]._meta["OMIT_MISSED_FIELDS"]

\* C8 (as claimed): without ALLOW_EXTRA_FIELDS the key set of an instance
\* is exactly the schema's field names; with it every input key is exposed
\* by key and by attribute with its input value.
C8_Original ==
    (last.op = "init" /\ last.err = OK) =>
        /\ ~Allow => DOMAIN heap[last.loc].d = DOMAIN Schema(last.cls)
        /\ Allow => \A k \in DOMAIN last.kw :
                /\ GetItem(heap, last.loc, k) = last.kw[k]
                /\ GetAttr(classes, heap, last.loc, k) = last.kw[k]

\* C8 (amended): without ALLOW_EXTRA_FIELDS every undeclared input key is
\* dropped, so the key set is within the schema's field names, and is all
\* of them when OMIT_MISSED_FIELDS is false; with ALLOW_EXTRA_FIELDS every
\* undeclared input key is exposed by key and by attribute with its input
\* value, and every declared input key with the value its field made of
\* the input (the input itself when a SimpleField is given a value).
C8_ExtraFields ==
    (last.op = "init" /\ last.err = OK) =>
        /\ ~Allow =>
            /\ DOMAIN heap[last.loc].d \subseteq DOMAIN Schema(last.cls)
            /\ ~Omit => DOMAIN heap[last.loc].d = DOMAIN Schema(last.cls)
        /\ Allow => \A k \in DOMAIN last.kw :
            /\ k \in DOMAIN heap[last.loc].d
            /\ GetAttr(classes, heap, last.loc, k) = GetItem(heap, last.loc, k)
            /\ k \notin DOMAIN Schema(last.cls) =>
                    GetItem(heap, last.loc, k) = last.kw[k]
            /\ (k \in DOMAIN Schema(last.cls) /\ last.kw[k] # None
                    /\ Schema(last.cls)[k].cls = "SimpleField") =>
                    GetItem(heap, last.loc, k) = last.kw[k]

\* an instance of a class with ALLOW_EXTRA_FIELDS exposes the undeclared
\* key it was given
C8_Witness ==
    /\ last.op = "init"
    /\ last.err = OK
    /\ Allow
    /\ Extra \in DOMAIN last.kw
    /\ Extra \notin DOMAIN Schema(last.cls)
    /\ GetAttr(classes, heap, last.loc, Extra) = StrV("a")

\* C9: no statement changes the schema of a class, which stays what
\* DocumentMeta collects from its parents and its body, and an instance
\* built without the undeclared key does not expose it, by key or by
\* attribute, whatever was built before.
C9_SchemaUnchanged ==
    [][ /\ \A c \in DOMAIN classes :
              /\ c \in DOMAIN classes'
              /\ classes'[c]._fields = classes[c]._fields
        /\ Schema("Model")' =
              Merge(ParentsUpdate(classes', classes'["Model"]._parents, "_fields", EmptyMap),
                    classes'["Model"].dct)
        /\ (last'.op = "init" /\ last'.err = OK /\ Extra \notin DOMAIN last'.kw) =>
              /\ Extra \notin DOMAIN heap'[last'.loc].d
              /\ GetAttr(classes', heap', last'.loc, Extra) = Raised("AttributeError")
      ]_vars

\* td_2 was built without the undeclared key after td was built with it
C9_Witness ==
    /\ last.op = "init"
    /\ last.loc = TD2
    /\ last.err = OK
    /\ Allow
    /\ TD \in Docs(heap)
    /\ Extra \in DOMAIN heap[TD].d
    /\ Extra \notin DOMAIN heap[TD2].d

\* what a default is stored as: a copy of a mutable one, else the value
\* the field's coercion makes of it
StoredDefault(fld, value) ==
    IF fld._default.t = "lambda"
    THEN value.t = "ref" /\ heap[value.v] = heap[fld._default.v]
    ELSE value = typecast(classes, fld, fld._default, heap, <<>>).val

\* C10 (as claimed): with OMIT_MISSED_FIELDS an absent field without
\* default is not in the mapping and reads None by attribute, an absent
\* field with a default is stored with it, and a required one without
\* default makes construction fail; without the option an absent field
\* without default is stored as None.
C10_Original ==
    last.op = "init" =>
        \A n \in DOMAIN Schema(last.cls) \ DOMAIN last.kw :
            /\ (Omit /\ Schema(last.cls)[n]._default = None) =>
                /\ Schema(last.cls)[n].required => last.err # OK
                /\ last.err = OK =>
                    /\ n \notin DOMAIN heap[last.loc].d
                    /\ GetAttr(classes, heap, last.loc, n) = None
            /\ (Omit /\ Schema(last.cls)[n]._default # None /\ last.err = OK) =>
                /\ n \in DOMAIN heap[last.loc].d
                /\ StoredDefault(Schema(last.cls)[n], heap[last.loc].d[n])
            /\ (~Omit /\ Schema(last.cls)[n]._default = None /\ last.err = OK) =>
                GetItem(heap, last.loc, n) = None

\* C10 (amended): the claim holds for every field that is not a
\* nested-document field (and whose coercion keeps None); an absent
\* nested-document field is stored as a document built from the empty
\* mapping whatever the option says, also when it is required.
C10_OmitMissedFields ==
    last.op = "init" =>
        \A n \in DOMAIN Schema(last.cls) \ DOMAIN last.kw :
            IF Schema(last.cls)[n].cls = "DocumentField"
            THEN /\ last.err = OK
                 /\ GetItem(heap, last.loc, n) = RefV(last.loc \o n)
                 /\ heap[last.loc \o n].cls = Schema(last.cls)[n]._model
                 /\ heap[last.loc \o n].d = Map1(K("login"), StrV("guest"))
            ELSE /\ Schema(last.cls)[n]._default = None =>
                    /\ Schema(last.cls)[n].required => last.err = "FieldRequiredError"
                    /\ (last.err = OK /\ Omit) =>
                        /\ n \notin DOMAIN heap[last.loc].d
                        /\ GetAttr(classes, heap, last.loc, n) = None
                    /\ (last.err = OK /\ ~Omit) =>
                        GetItem(heap, last.loc, n) = None
                 /\ (Schema(last.cls)[n]._default # None /\ last.err = OK) =>
                    /\ n \in DOMAIN heap[last.loc].d
                    /\ StoredDefault(Schema(last.cls)[n], heap[last.loc].d[n])

\* an instance of a class with OMIT_MISSED_FIELDS was built without its
\* field, which has no default, and does not hold the key
C10_Witness ==
    /\ last.op = "init"
    /\ last.err = OK
    /\ Omit
    /\ \E n \in DOMAIN Schema(last.cls) \ DOMAIN last.kw :
          /\ Schema(last.cls)[n]._default = None
          /\ n \notin DOMAIN heap[last.loc].d
          /\ GetAttr(classes, heap, last.loc, n) = None

\* the hooks that are functions, of the schema fields of class c
FunctionHooks(c) ==
    {n \in DOMAIN Schema(c) : HookLookup(classes, Mro(classes, c), n).kind = "function"}

\* what _prepare_fields makes of the input of the statement st
FieldsOf(st) ==
    prepare_fields(classes, st.cls,
                   clean_kwargs(classes, st.cls, unprotect_fields(st.cls, st.kw)),
                   heap, st.loc)
HooksDispatched(st, made) ==
    /\ made.errs # {} => st.calls = {} /\ st.err \in made.errs
    /\ made.errs = {} =>
          /\ st.err \in {OK, "ModelValidationError"}
          /\ \A call \in st.calls :
                /\ call.document = made.objs[st.loc]
                /\ call.value = call.document.d[call.field]
          /\ \A n \in FunctionHooks(st.cls) : \E call \in st.calls : call.field = n
          /\ st.err = OK =>
                \A call \in st.calls :
                   HookBody(HookLookup(classes, Mro(classes, st.cls), call.field),
                            call.value,
                            getattr(Descriptor(classes, st.cls,
                                       HookLookup(classes, Mro(classes, st.cls),
                                                  call.field).other),
                                    made.objs[st.loc],
                                    HookLookup(classes, Mro(classes, st.cls),
                                               call.field).other)) = OK
    /\ st.err # OK => heap' = heap

\* C11: the hooks of a construction run only after every schema field was
\* coerced, validated and stored: each validate_<field> function is called
\* with the instance as assembled and the final value of its field, the
\* construction succeeds only when no hook rejects, fails only with the
\* hook's ModelValidationError once the fields passed, and a failed
\* construction binds no instance.
C11_HooksAfterAssembly ==
    [][last'.op = "init" => HooksDispatched(last', FieldsOf(last'))]_vars

\* the fields of class c whose default is bad and is used for the input kw
BadDefaultsUsed(c, kw) ==
    {n \in DOMAIN Schema(c) : BadDefault(classes, Schema(c)[n]) /\ Given(kw, n) = None}

\* C12 as stated: a class with a field whose non-callable, non-None
\* default fails the field's coercion is rejected by the class statement,
\* so no such class is ever defined.
C12_Original ==
    [][last'.op = "class" =>
          \/ last'.err # OK /\ classes' = classes
          \/ \A a \in DOMAIN classes'[last'.cls].dct :
                ~BadDefault(classes', classes'[last'.cls].dct[a])]_vars

\* C12 (amended): every class statement succeeds and defines the class,
\* whatever its defaults; a default that fails the field's coercion makes
\* every construction fail that leaves the field absent or None, binding
\* nothing, and a construction that uses no such default and succeeds
\* stores what the field makes of the input.
C12_DefaultCheckedAtUse ==
    [][/\ last'.op = "class" => last'.err = OK /\ last'.cls \in DOMAIN classes'
       /\ last'.op = "init" /\ BadDefaultsUsed(last'.cls, last'.kw) # {} =>
             last'.err # OK /\ heap' = heap
       /\ last'.op = "init" /\ BadDefaultsUsed(last'.cls, last'.kw) = {}
             /\ last'.err = "ValueError" =>
             \E n \in DOMAIN last'.kw :
                typecast(classes, Schema(last'.cls)[n], last'.kw[n], heap, TD).errs
                   = {"ValueError"}]_vars
C12_Witness ==
    /\ last.op = "init" /\ last.err = "ValueError"
    /\ BadDefaultsUsed(last.cls, last.kw) # {}
    /\ \A n \in DOMAIN last.kw :
          typecast(classes, Schema(last.cls)[n], last.kw[n], heap, TD).errs = {}

\* the kinds of error of the taxonomy; a coercion that fails raises the
\* builtin ValueError or TypeError, which is the kind ValidationError
Taxonomy ==
    {"ValidationError", "FieldRequiredError", "ImmutableFieldError",
     "ImmutableDocumentError", "ModelNotFoundError", "ModelConstructionError",
     "ModelValidationError", "ConfigurationError"}
KindOf(e) == IF e \in {"ValueError", "TypeError"} THEN "ValidationError" ELSE e

\* the value v has the type the field coerces to
OfType(fld, v) ==
    CASE fld.cls = "IntegerField" -> v.t \in {"int", "None"}
      [] fld.cls = "CharField" -> v.t \in {"str", "None"}
      [] OTHER -> TRUE
\* every field of the document satisfies what its Field declares
Satisfies(c, doc) ==
    \A n \in DOMAIN Schema(c) :
       IF n \in DOMAIN doc.d
       THEN validate(Schema(c)[n], doc.d[n]) = OK /\ OfType(Schema(c)[n], doc.d[n])
       ELSE ~Schema(c)[n].required

\* C13: a construction either binds an instance whose every field
\* satisfies its declared constraints (required, choices, type), or raises
\* one error whose kind is in the taxonomy and binds nothing.
C13_ConstructionOutcome ==
    [][last'.op = "init" =>
          \/ /\ last'.err = OK
             /\ last'.loc \in DOMAIN heap'
             /\ Satisfies(last'.cls, heap'[last'.loc])
          \/ /\ KindOf(last'.err) \in Taxonomy
             /\ heap' = heap]_vars

\* the element e is what `of` returns: an int for int, an instance of the
\* model for a model
IsCoerced(of, e) ==
    CASE of = OfCallable("int") -> e.t = "int"
      [] of = OfCallable("str") -> e.t = "str"
      [] of.k = "class" -> e.t = "docv" /\ e.v.cls = of.v
      [] OTHER -> FALSE

\* C14: every element of a list wrapper whose elements can be read has
\* been coerced by the wrapper's `of`, after construction and after any
\* sequence of append, extend, insert, item assignment, deletion and sort.
C14_ElementsCoerced ==
    \A loc \in Lists(heap) :
       ~heap[loc].raw =>
          \A n \in DOMAIN heap[loc].items :
             IsCoerced(heap[loc]._of, heap[loc].items[n])

\* the elements before, the elements after and the element given, of a
\* statement on the list at loc
AppendHolds(before, after, value, err, item) ==
    /\ ~before.raw /\ item.errs # {} => err # OK
    /\ ~before.raw /\ item.errs = {} => err = OK
    /\ err # OK =>
          /\ ~before.raw => after = before
          /\ after.items \in {before.items,
                               CoerceAll(classes, after._of, before.items, heap).vals}
    /\ err = OK =>
          /\ ~after.raw
          /\ Len(after.items) = Len(before.items) + 1
          /\ after.items[Len(after.items)] = item.val
          /\ SubSeq(after.items, 1, Len(before.items))
                \in {before.items,
                     CoerceAll(classes, after._of, before.items, heap).vals}
          /\ ~before.raw => SubSeq(after.items, 1, Len(before.items)) = before.items

\* C15: appending an element that `of` cannot coerce raises an error and
\* leaves the elements and their order as they were; an append of an
\* element that `of` coerces, after a failed one as at any time, succeeds
\* and adds exactly that one coerced element at the end.
C15_AppendAllOrNothing ==
    [][last'.op = "append" =>
          AppendHolds(heap[last'.loc], heap'[last'.loc], last'.val, last'.err,
                      CoerceItem(classes, heap'[last'.loc]._of, last'.val, heap))]_vars
C15_Witness ==
    /\ last.op = "append" /\ last.err \in {"ValueError", "TypeError"}
    /\ ~heap[last.loc].raw /\ Len(heap[last.loc].items) > 0
    /\ \A n \in DOMAIN heap[last.loc].items :
          IsCoerced(heap[last.loc]._of, heap[last.loc].items[n])

\* the statements that set the list field tags, and the value they give
SetsTags(st) ==
    \/ st.op = "init" /\ K("tags") \in DOMAIN st.kw
    \/ st.op = "setattr" /\ st.key = K("tags")
TagsGiven(st) == IF st.op = "init" THEN st.kw[K("tags")] ELSE st.val
TagsLoc == <<"td", "tags">>

\* C16 as stated: setting a list field, at construction or by assignment,
\* to a value that is not a sequence fails and stores nothing.
C16_Original ==
    [][SetsTags(last') /\ TagsGiven(last').t # "list" =>
          last'.err # OK /\ heap' = heap]_vars

\* C16 (amended): setting a list field to a truthy value that is not a
\* list fails with ValueError and stores nothing; a falsy value that is
\* not a sequence (None, the empty string, 0, the empty mapping) is taken
\* as the empty list, as the empty list itself is.
C16_NonSequence ==
    [][SetsTags(last') =>
          /\ TagsGiven(last').t # "list" /\ Truthy(TagsGiven(last')) =>
                last'.err = "ValueError" /\ heap' = heap
          /\ ~Truthy(TagsGiven(last')) =>
                /\ last'.err \in {OK, "ModelNotFoundError"}
                /\ last'.err = OK => heap'[TagsLoc].items = <<>>
                /\ last'.err # OK => heap' = heap]_vars
C16_Witness ==
    /\ SetsTags(last) /\ TagsGiven(last) = StrV("") /\ last.err = OK
    /\ heap[TagsLoc].items = <<>>

\* the operations of the claim, on the wrapper at the statement's loc
ListOps == {"read", "len", "append", "insert", "setitem", "delitem", "sort"}
\* a raw wrapper whose model name is registered and whose raw elements the
\* model accepts
Resolvable(w) ==
    /\ w.raw /\ w._of.k = "name" /\ w._of.v \in DOMAIN classes
    /\ CoerceAll(classes, OfClass(w._of.v), w.items, heap).errs = {}
\* the first operation on it: every raw element is coerced, then the
\* operation is applied to the coerced elements
FirstUse(st, w, after, all, item) ==
    /\ ~after.raw /\ after._of = OfClass(w._of.v)
    /\ st.op \in {"read", "len"} => after.items = all /\ st.err = OK
    /\ st.op \in {"append", "insert"} =>
          IF item.errs # {} THEN after.items = all /\ st.err # OK
          ELSE /\ st.err = OK
               /\ after.items =
                     InsertAt(all, IF st.op = "append" THEN Len(all) ELSE st.index,
                              item.val)
    /\ st.op = "delitem" /\ st.index < Len(all) =>
          after.items = RemoveAt(all, st.index)
    /\ st.op \in {"setitem", "sort"} => Len(after.items) = Len(all)

\* C17: a list wrapper whose `of` is a model name is raw when the
\* construction returns; the first of read, len, append, insert, item
\* assignment, deletion and sort coerces every raw element through the
\* registry and then applies the operation; a materialized wrapper is
\* never raw again, and reading it again returns the same elements and
\* changes nothing.
C17_LazyMaterialization ==
    [][/\ last'.op = "init" /\ last'.err = OK /\ TagsOf(classes).k = "name" =>
             heap'[TagsLoc].raw
       /\ last'.op \in ListOps /\ Resolvable(heap[last'.loc]) =>
             FirstUse(last', heap[last'.loc], heap'[last'.loc],
                      CoerceAll(classes, OfClass(heap[last'.loc]._of.v),
                                heap[last'.loc].items, heap).vals,
                      CoerceItem(classes, OfClass(heap[last'.loc]._of.v),
                                 last'.val, heap))
       /\ last'.op \in ListOps /\ ~heap[last'.loc].raw => ~heap'[last'.loc].raw
       /\ last'.op = "read" /\ ~heap[last'.loc].raw =>
             /\ heap' = heap /\ last'.err = OK
             /\ last'.ret = ListV(heap[last'.loc].items)]_vars

\* C18: reading a list wrapper whose model name was never registered, and
\* coercing a value of a nested-document field whose model name was never
\* registered, fails with ModelNotFoundError, at the first attempt and at
\* every later one, and yields no value.
C18_UnregisteredName ==
    [][/\ last'.op = "read" /\ TagsOf(classes) = OfName(Nowhere) =>
             last'.err = "ModelNotFoundError" /\ last'.ret = None
       /\ last'.op = "init" /\ last'.cls = "Page" =>
             last'.err = "ModelNotFoundError" /\ heap' = heap]_vars

\* C19: for every model class that was defined and that the program still
\* refers to, looking up its name in the registry returns that class,
\* whatever classes were defined later (one of the same name included) and
\* whatever unreferenced classes were collected.
C19_RegistryLookup ==
    \A id \in Bound(heap) : registry_get(heap, classes[id].name) = ClassRef(id)

(***************************************************************************)
(* C20: export followed by construction                                    *)
(***************************************************************************)
\* td_2 was just built, or refused, from the export of td
Reimported ==
    /\ last.op = "init" /\ last.loc = TD2
    /\ TD \in DOMAIN heap
    /\ last.kw = as_dict(classes, heap[TD], heap)
\* the construction from the export succeeded and exports the same
SameExport ==
    /\ last.err = OK
    /\ as_dict(classes, heap[TD2], heap) = as_dict(classes, heap[TD], heap)
\* no list field of the class coerces its elements with the digest
IdempotentOf(cs, c) ==
    \A k \in DOMAIN cs[c]._fields :
        cs[c]._fields[k].cls = "ListField"
            => cs[c]._fields[k]._of # OfCallable("sha256")

\* C20 as stated: for every model and every input it accepts, the
\* instance built from the export of an instance is built without error
\* and has the same export.
C20_Original == Reimported => SameExport

\* C20 (amended): the claim holds for every model whose list fields coerce
\* their elements with int, str or a model class (a coercion that gives
\* its own results back unchanged), datetime, nested-document and list
\* fields included.
C20_ExportIdempotent ==
    Reimported /\ IdempotentOf(classes, "Event") => SameExport

\* a list of Visit whose datetime had microseconds was exported, and an
\* instance was built from the export
C20_Witness ==
    /\ Reimported /\ last.err = OK
    /\ K("visits") \in DOMAIN heap[TD].d
    /\ LET w == heap[heap[TD].d[K("visits")].v]
       IN  w.items # <<>> /\ w.items[1].v.d[K("at")] = DateV(1, 5)

(***************************************************************************)
(* C21: a container field the input does not give                          *)
(***************************************************************************)
\* td was just built, or refused
Built == last.op = "init" /\ last.loc = TD
\* the container fields of Model that the input of the construction left out
Containers == {"DocumentField", "ListField", "DictField"}
AbsentContainers ==
    {n \in DOMAIN classes["Model"]._fields :
        /\ classes["Model"]._fields[n].cls \in Containers
        /\ n \notin DOMAIN last.kw}
\* the value is an empty container of the field's kind: an instance of
\* the model built from {}, an empty list, an empty mapping
EmptyContainer(fld, value) ==
    CASE fld.cls = "DocumentField" ->
            /\ value.t = "ref"
            /\ heap[value.v] =
                  NewDocument(classes, fld._model, EmptyMap, heap, value.v).objs[value.v]
      [] fld.cls = "ListField" ->
            /\ value.t = "ref"
            /\ heap[value.v].t = "listtype"
            /\ heap[value.v].items = <<>>
      [] OTHER -> value = DictV(EmptyMap)
\* the field is not in the mapping and reads None
NotStored(n) ==
    /\ n \notin DOMAIN heap[TD].d
    /\ GetAttr(classes, heap, TD, n) = None
\* what the code does with the absent container field n
ShapeOf(n, fld, omit) ==
    CASE fld.cls = "DocumentField" ->
            last.err = OK /\ EmptyContainer(fld, GetAttr(classes, heap, TD, n))
      [] fld.cls = "ListField" /\ ~omit ->
            last.err = OK /\ EmptyContainer(fld, GetAttr(classes, heap, TD, n))
      [] fld.required -> last.err = "FieldRequiredError"
      [] fld.cls = "ListField" -> last.err = OK /\ NotStored(n)
      [] omit -> last.err = OK /\ NotStored(n)
      [] OTHER ->
            /\ last.err = OK
            /\ heap[TD].d[n] = None
            /\ GetAttr(classes, heap, TD, n) = None

\* C21 as stated: an instance exposes an empty container, never None, for
\* every container field (nested document, list, mapping) that its input
\* left out, required or not, with OMIT_MISSED_FIELDS or not.
C21_Original ==
    Built /\ last.err = OK =>
        \A n \in AbsentContainers :
            EmptyContainer(classes["Model"]._fields[n], GetAttr(classes, heap, TD, n))

\* C21 (amended): a nested-document field left out is always built from
\* the empty mapping; a list field left out is an empty list unless
\* OMIT_MISSED_FIELDS is set, and then it is not stored (reads None) or,
\* when required, refused; a mapping field left out is None, not stored
\* under OMIT_MISSED_FIELDS, or, when required, refused.
C21_ContainerShape ==
    Built =>
        \A n \in AbsentContainers :
            ShapeOf(n, classes["Model"]._fields[n],
                    classes["Model"]._meta["OMIT_MISSED_FIELDS"])

\* an instance was built without its list field under OMIT_MISSED_FIELDS
C21_Witness ==
    /\ Built /\ last.err = OK
    /\ classes["Model"]._meta["OMIT_MISSED_FIELDS"]
    /\ \E n \in AbsentContainers : classes["Model"]._fields[n].cls = "ListField"

(***************************************************************************)
(* C22: a field with a verbose name                                        *)
(***************************************************************************)
\* the attributes of Model declared with a verbose name
VerboseAttrs ==
    {a \in DOMAIN classes["Model"].dct :
        classes["Model"].dct[a]._verbose_name \notin {NoName, a}}

\* C22: the mapping of an instance never holds a field declared with a
\* verbose name under its attribute name, and when it holds it under the
\* verbose name, reading by the attribute gives the value under that key;
\* after construction and after attribute writes.
C22_VerboseNameKey ==
    TD \in DOMAIN heap =>
        \A a \in VerboseAttrs :
            /\ a \notin DOMAIN heap[TD].d
            /\ FieldName(classes["Model"].dct[a]) \in DOMAIN heap[TD].d =>
                  GetAttr(classes, heap, TD, a)
                      = GetItem(heap, TD, FieldName(classes["Model"].dct[a]))

(***************************************************************************)
(* C23: choices                                                            *)
(***************************************************************************)
\* the fields of Model with choices
ChoiceFields ==
    {n \in DOMAIN classes["Model"]._fields : classes["Model"]._fields[n].choices # {}}
\* the value the last statement gave the field n: the one written, the
\* one of the input, or None for a field the input left out
GivenTo(n) ==
    IF last.op = "setattr" THEN last.val
    ELSE IF n \in DOMAIN last.kw THEN last.kw[n] ELSE None
\* the statement gave the field n a value
Gave(n) == Built \/ (last.op = "setattr" /\ last.loc = TD /\ last.key = n)
\* the value was coerced to one that is no choice
Outside(fld, cast) == cast.errs = {} /\ cast.val \notin fld.choices

\* C23: the value an instance holds for a field with choices, by key and
\* by attribute, is one of the choices; a construction or attribute write
\* whose value is coerced to one outside the choices fails with
\* ValidationError.
C23_Choices ==
    \A n \in ChoiceFields :
        /\ (TD \in DOMAIN heap /\ n \in DOMAIN heap[TD].d) =>
              /\ heap[TD].d[n] \in classes["Model"]._fields[n].choices
              /\ GetAttr(classes, heap, TD, n) \in classes["Model"]._fields[n].choices
        /\ (Gave(n) /\ Outside(classes["Model"]._fields[n],
                               typecast(classes, classes["Model"]._fields[n],
                                        GivenTo(n), heap, <<>>))) =>
              last.err = "ValidationError"

\* the integer 1 was written to the field and is held as the choice '1'
C23_Witness ==
    /\ last.op = "setattr" /\ last.err = OK /\ last.val = IntV(1)
    /\ last.key \in ChoiceFields
    /\ heap[TD].d[last.key] = StrV("1")

(***************************************************************************)
(* C24: Set coerces, validates, stores                                     *)
(***************************************************************************)
\* what an attribute write of `value` to the field fld of td must do,
\* given the coerced value: refused by the coercion or, on the coerced
\* value, by a validator, and then nothing changes; else the coerced
\* value is what the attribute reads
SetOutcome(fld, a, cast) ==
    IF cast.errs # {}
    THEN last'.err \in cast.errs /\ heap' = heap
    ELSE IF validate(fld, cast.val) # OK
    THEN last'.err = validate(fld, cast.val) /\ heap' = heap
    ELSE /\ last'.err = OK
         /\ GetAttr(classes, heap', TD, a) = cast.val

\* C24: an attribute write to a field coerces the value, gives the
\* coerced value to the validators and stores it; when the coercion or a
\* validator fails, the instance (the value read by attribute and by key)
\* is what it was before.
C24_SetOrder ==
    [][(last'.op = "setattr" /\ last'.loc = TD
            /\ last'.key \in DOMAIN classes["Model"].dct) =>
          SetOutcome(classes["Model"].dct[last'.key], last'.key,
                     typecast(classes, classes["Model"].dct[last'.key], last'.val,
                              heap, TD \o FieldName(classes["Model"].dct[last'.key])))]_vars

\* the empty string was written to the field with choices and refused,
\* the field keeps its choice
C24_Witness ==
    /\ last.op = "setattr" /\ last.err = "ValidationError" /\ last.val = StrV("")
    /\ last.key \in ChoiceFields
    /\ heap[TD].d[last.key] \in Levels

(***************************************************************************)
(* C25: the value a construction passes to Set                             *)
(***************************************************************************)
\* the instance holds for n what Set makes of `value`
HoldsSetOf(n, value, cast) ==
    /\ cast.errs = {}
    /\ heap[TD].d[n] = cast.val
    /\ GetAttr(classes, heap, TD, n) = cast.val

\* C25: after a construction, every schema field whose key the input has
\* holds what Set makes of the input value, None included; the default is
\* used only for a key the input does not have.
C25_InputPassedToSet ==
    (Built /\ last.err = OK) =>
        \A n \in DOMAIN classes["Model"]._fields \cap DOMAIN last.kw :
            HoldsSetOf(n, last.kw[n],
                       typecast(classes, classes["Model"]._fields[n], last.kw[n],
                                heap, TD \o n))

(***************************************************************************)
(* C27: using(T).validate(v) on a validator class                          *)
(***************************************************************************)
\* C27: after <V>.using(T).validate(v), and after
\* get_validator(T).validate(v), returned or raised, TYPE of the validator
\* class is what it was before the statement.
C27_UsingHasNoLastingEffect ==
    last.op \in {"using", "get_validator"} => heap[last.loc].TYPE = last.before

\* the address a person holds, by attribute or by key: the object itself
Child(cs, h, p, how) ==
    IF Held(cs, h, p, how).t = "ref" THEN h[Held(cs, h, p, how).v]
    ELSE Held(cs, h, p, how)
\* the statement wrote the street of the address p holds
WroteThrough(p) ==
    /\ last'.op = "setattr" /\ last'.key = K("street")
    /\ \E how \in Reads : Held(classes, heap, p, how) = RefV(last'.loc)

\* C26: a nested instance is never shared: after giving the same Address
\* instance or mapping to two persons, by construction, attribute write
\* or item write, a write of the street of the address one person holds
\* leaves the address_1 instance and the address the other person holds,
\* read by attribute or by key, as they were
C26_NestedNotShared ==
    [][\A p \in Persons :
          WroteThrough(p) =>
             /\ Address1 \in DOMAIN heap => heap'[Address1] = heap[Address1]
             /\ \A q \in Persons \ {p} : \A how \in Reads :
                   Child(classes, heap', q, how) = Child(classes, heap, q, how)]_vars

\* the statement did what constructing the class from the same mapping does
SameAsDirect(made) ==
    IF made.errs # {} THEN last.err \in made.errs
    ELSE /\ last.err = OK
         /\ \A l \in DOMAIN made.objs : heap[l] = made.objs[l]

\* C28: protection is a round trip: _unprotect_fields(_protect_fields(d))
\* is d, and C.create(d) builds the instance C(d) builds, for every
\* mapping d, also one with the keys self, 'C_' or a key containing 'C_'
C28_ProtectRoundTrip ==
    /\ last.op = "unprotect" => last.ret = last.kw
    /\ last.op = "create" =>
          SameAsDirect(NewDocument(classes, last.cls, last.kw, heap, last.loc))

\* C29: the Field that coerces and validates an attribute write is the
\* Field object the schema of the class holds under that name, the one
\* construction used, also when several parents declare the name
C29_WriteUsesSchemaField ==
    (last.op = "setattr" /\ last.key \in DOMAIN Schema(last.cls)) =>
        Descriptor(classes, last.cls, last.key) = Schema(last.cls)[last.key]

\* C30: the mapping of an ImmutableDocument never changes after
\* construction: item deletion, update, pop, setdefault and clear leave
\* its keys and values as they were, as attribute and item writes do
C30_ImmutableMapping ==
    [][(/\ last'.op \in MappingOps \cup {"setattr", "setitem"}
        /\ IsImmutableDocument(classes, last'.cls))
          => heap'[last'.loc].d = heap[last'.loc].d]_vars

=============================================================================
